---- MODULE Spec2Model ----
(***************************************************************************)
(* Server-authoritative tick simulation of src/server.js: the entity maps, *)
(* the spawn scheduler, the swept collision pass, the upgrade handlers and *)
(* the wave / card-selection / game-over state machine.                    *)
(*                                                                         *)
(* Units.  Positions are pixels (integers: every position the server       *)
(* computes from integer inputs is an integer, except the homing step,     *)
(* which is truncated to whole pixels).  Hit points and damage are kept in *)
(* thousandths (HpScale) so that the fractional splash damage is exact.    *)
(* Spawn weights are kept in halves (the weights are 0.5, 1 and 2).        *)
(* Maps are sequences in insertion order, the order Map.forEach visits.    *)
(***************************************************************************)
EXTENDS Integers, Sequences, FiniteSets

\* ---------------------------------------------------------------- bounds
MaxTick == 314          \* ticks explored per game (tickCount is reset by resetGame)
JoinWindow == 0         \* ticks explored before startGame; mid-wave connects and
                        \* disconnects are explored up to this tick of a game
MaxPlayerId == 2        \* connections explored (nextPlayerId is never reset)
MaxClockSteps == 1      \* coarse clock steps explored
ArenaTicks == 24        \* ticks explored from the start of wave 2 (see ArenaInit)
SelectionTicks == 2     \* ticks explored from the selection after wave 2
LateTicks == 200
LateJoinTick == 574
LateJoinSpan == 3
MaxSweepDist == 4       \* sweep test: ball distances up to MaxSweepDist * SweepStep units
MaxSnapshots == 4       \* snapshots the client receives
MaxClientTime == 450    \* performance.now() stays at or below this, ms
FrameSteps == {25, 75}  \* time between two browser events, ms

\* ------------------------------------------------------- program constants
TICK_RATE == 15
ROOM_WIDTH == 720
ROOM_HEIGHT == 1280
PLAYER_RADIUS == 20
PLAYER_SPEED == 16
BULLET_DAMAGE == 1
BULLET_RADIUS == 6
BULLET_SPEED == 75
CARD_SELECTION_MS == 15000
INITIAL_LIVES == 10
AREA_DAMAGE_RADIUS == 100
PUSHER_STRENGTH == 5
BURN_DURATION_TICKS == 5 * TICK_RATE
MELEE_RANGE == 200
MELEE_BULLET_INTERVAL == 4

HpScale == 10 * 10 * 10
NoBurn == 0 - 1          \* burnEndTick of a ball that was never ignited (undefined)

BALL_TYPE_KEYS == <<"normal", "fast", "big">>

\* hp, speed, spawnRate as in the source; waveWeight2 is waveWeight in halves
BALL_TYPES(type) ==
  CASE type = "normal" -> [hp |-> 20,  speed |-> 7,  spawnRate |-> 3, waveWeight2 |-> 1]
    [] type = "fast"   -> [hp |-> 14,  speed |-> 10, spawnRate |-> 2, waveWeight2 |-> 2]
    [] type = "big"    -> [hp |-> 160, speed |-> 3,  spawnRate |-> 1, waveWeight2 |-> 4]

CARD_TYPES ==
  <<"critical", "piercing", "areaDamage", "bulletCount", "pusher",
    "extraLife", "ignition", "melee", "bouncyBullets">>

\* ------------------------------------------------------------ arithmetic
Max(a, b) == IF a >= b THEN a ELSE b
Min(a, b) == IF a <= b THEN a ELSE b
Abs(a) == IF a >= 0 THEN a ELSE 0 - a

RECURSIVE Pow(_, _)
Pow(b, e) == IF e <= 0 THEN 1 ELSE b * Pow(b, e - 1)

\* a * b / c truncated toward zero, as a float product cut to whole pixels
MulDivTrunc(a, b, c) == IF a >= 0 THEN (a * b) \div c ELSE 0 - (((0 - a) * b) \div c)

\* floor(sqrt(n)) by bisection on [lo, hi]
RECURSIVE ISqrtIn(_, _, _)
ISqrtIn(n, lo, hi) ==
  IF lo >= hi THEN lo
  ELSE LET mid == (lo + hi + 1) \div 2
       IN IF mid * mid <= n THEN ISqrtIn(n, mid, hi) ELSE ISqrtIn(n, lo, mid - 1)
ISqrt(n) == ISqrtIn(n, 0, 4096)

\* ------------------------------------------------------------- state
VARIABLES
  players,              \* Map id -> player, as a sequence in insertion order
  bullets,              \* Map id -> bullet
  balls,                \* Map id -> ball
  nextPlayerId, nextBulletId, nextBallId,
  tickCount, gameStarted, gamePhase, wave,
  waveWeightSpawned,    \* in halves
  lastSpawnTick, cardSelectionEndTime, lives,
  now,                  \* Date.now() as last read by gameTick
  rng,                  \* the Math.random() draws that spawnBall will receive
  areaDamageHits, bulletHits,   \* the event lists of the last emitted snapshot
  exited,               \* balls that crossed the bottom during the last tick
  stateBuffer,          \* client: the buffered snapshots [time, state]
  perfNow,              \* client: performance.now(), in ms
  rendered              \* client: what getInterpolatedState last returned

vars == <<players, bullets, balls, nextPlayerId, nextBulletId, nextBallId,
          tickCount, gameStarted, gamePhase, wave, waveWeightSpawned,
          lastSpawnTick, cardSelectionEndTime, lives, now, rng,
          areaDamageHits, bulletHits, exited,
          stateBuffer, perfNow, rendered>>

serverVars == <<players, bullets, balls, nextPlayerId, nextBulletId, nextBallId,
                tickCount, gameStarted, gamePhase, wave, waveWeightSpawned,
                lastSpawnTick, cardSelectionEndTime, lives, now, rng,
                areaDamageHits, bulletHits, exited>>

clientVars == <<stateBuffer, perfNow, rendered>>

\* getInterpolatedState returns null on an empty buffer
NoState == [none |-> TRUE]

NoKeys == [left |-> FALSE, right |-> FALSE, up |-> FALSE, down |-> FALSE]

\* io.on('connection'): the player object (socket and lastActivity left out)
NewPlayer(id) ==
  [id |-> id, x |-> ROOM_WIDTH \div 2, y |-> ROOM_HEIGHT - 80,
   criticalChance |-> 0, pierceChance |-> 0, areaDamageLevel |-> 0,
   bulletCount |-> 1, pusherChance |-> 0, ignitionChance |-> 0,
   meleeDamage |-> 0, bounceCount |-> 0,
   keys |-> NoKeys,
   offeredCards |-> << >>,      \* undefined / null
   cardSelected |-> FALSE]      \* undefined is falsy

\* indices of a sequence, and lookup of a map entry by id (0 when absent)
Idx(seq) == 1 .. Len(seq)
IndexOfId(seq, id) ==
  IF \E i \in Idx(seq) : seq[i].id = id
  THEN CHOOSE i \in Idx(seq) : seq[i].id = id
  ELSE 0
Ids(seq) == {seq[i].id : i \in Idx(seq)}
RemoveIds(seq, dead) == SelectSeq(seq, LAMBDA e : e.id \notin dead)

\* ------------------------------------------------------ spawn scheduler
\* pickBallType with r10 = Math.random() * total, in tenths (0 .. 59)
RECURSIVE PickFrom(_, _)
PickFrom(r10, i) ==
  IF i > Len(BALL_TYPE_KEYS) THEN BALL_TYPE_KEYS[1]
  ELSE LET rest == r10 - 10 * BALL_TYPES(BALL_TYPE_KEYS[i]).spawnRate
       IN IF rest <= 0 THEN BALL_TYPE_KEYS[i] ELSE PickFrom(rest, i + 1)
pickBallType(r10) == PickFrom(r10, 1)

BallRadius(type) == IF type = "big" THEN 70 ELSE IF type = "fast" THEN 30 ELSE 44

\* mutant of spawnBall: the id is taken after the increment of an earlier ball
spawnBallStaleId(id, type, u) ==
  LET def == BALL_TYPES(type)
      radius == BallRadius(type)
  IN [id |-> Max(1, id - 1),
      x |-> (u * (ROOM_WIDTH - radius * 2)) \div 1000 + radius,
      y |-> 0 - radius - 10,
      type |-> type,
      hp |-> def.hp * HpScale, maxHp |-> def.hp * HpScale,
      speed |-> def.speed, radius |-> radius,
      burnEndTick |-> NoBurn]

\* spawnBall: the new ball; u is Math.random() in thousandths (0 .. 999)
spawnBall(id, type, u) ==
  LET def == BALL_TYPES(type)
      radius == BallRadius(type)
  IN [id |-> id,
      x |-> (u * (ROOM_WIDTH - radius * 2)) \div 1000 + radius,
      y |-> 0 - radius - 10,
      type |-> type,
      hp |-> def.hp * HpScale, maxHp |-> def.hp * HpScale,
      speed |-> def.speed, radius |-> radius,
      burnEndTick |-> NoBurn]

\* waveWeightSpawned >= 20 * 1.1^(wave-1), with the spent weight in halves
BudgetSpent(spent2, w) == spent2 * Pow(10, w - 1) >= 40 * Pow(11, w - 1)

\* Math.max(1, Math.floor(TICK_RATE * 0.9^(wave-1)))
spawnIntervalTicks(w) == Max(1, (TICK_RATE * Pow(9, w - 1)) \div Pow(10, w - 1))

\* ----------------------------------------------------- collision geometry
\* pointToSegmentDist, squared and kept exact: the distance from (px, py) to
\* the nearest point of the segment is sqrt(base - dot2 / lenSq)
pointToSegmentDist(px, py, x1, y1, x2, y2) ==
  LET dx == x2 - x1
      dy == y2 - y1
      lenSq == dx * dx + dy * dy
      d1 == (px - x1) * (px - x1) + (py - y1) * (py - y1)
      dot == (px - x1) * dx + (py - y1) * dy
  IN IF lenSq = 0 THEN [base |-> d1, dot2 |-> 0, lenSq |-> 1]
     ELSE IF dot <= 0 THEN [base |-> d1, dot2 |-> 0, lenSq |-> 1]       \* t = 0
     ELSE IF dot >= lenSq                                               \* t = 1
          THEN [base |-> (px - x2) * (px - x2) + (py - y2) * (py - y2),
                dot2 |-> 0, lenSq |-> 1]
     ELSE [base |-> d1, dot2 |-> dot * dot, lenSq |-> lenSq]

\* d <= r for a distance d as returned by pointToSegmentDist (dot2 <= lenSq^2,
\* so the products stay small)
DistLeq(d, r) ==
  LET over == d.base - r * r
  IN \/ over <= 0
     \/ /\ over <= d.lenSq
        /\ over * d.lenSq <= d.dot2

\* mutant of bulletHitsBall: only the end point of the move is tested
bulletHitsBallAtEnd(bullet, ball, moveX, moveY) ==
  DistLeq(pointToSegmentDist(ball.x, ball.y, bullet.x + moveX, bullet.y + moveY,
                             bullet.x + moveX, bullet.y + moveY),
          bullet.radius + ball.radius)

\* bulletHitsBall: dist <= bullet.radius + ball.radius
bulletHitsBall(bullet, ball, moveX, moveY) ==
  DistLeq(pointToSegmentDist(ball.x, ball.y, bullet.x, bullet.y,
                             bullet.x + moveX, bullet.y + moveY),
          bullet.radius + ball.radius)

\* ------------------------------------------------------------ resetGame
\* mutant of ResetPlayer: bulletCount is not reset
ResetPlayerKeepBullets(p) ==
  [p EXCEPT !.x = ROOM_WIDTH \div 2, !.y = ROOM_HEIGHT - 80,
            !.criticalChance = 0, !.pierceChance = 0, !.areaDamageLevel = 0,
            !.pusherChance = 0, !.ignitionChance = 0,
            !.meleeDamage = 0, !.bounceCount = 0,
            !.offeredCards = << >>, !.cardSelected = FALSE]

ResetPlayer(p) ==
  [p EXCEPT !.x = ROOM_WIDTH \div 2, !.y = ROOM_HEIGHT - 80,
            !.criticalChance = 0, !.pierceChance = 0, !.areaDamageLevel = 0,
            !.bulletCount = 1, !.pusherChance = 0, !.ignitionChance = 0,
            !.meleeDamage = 0, !.bounceCount = 0,
            !.offeredCards = << >>, !.cardSelected = FALSE]

\* ---------------------------------------------------------------- gameTick
\* mutant of World: the two event lists of the tick start from the lists of
\* the last snapshot
WorldKeepEvents ==
  [players |-> players, bullets |-> bullets, balls |-> balls,
   nextBulletId |-> nextBulletId, nextBallId |-> nextBallId,
   tickCount |-> tickCount, gamePhase |-> gamePhase, wave |-> wave,
   waveWeightSpawned |-> waveWeightSpawned, lastSpawnTick |-> lastSpawnTick,
   cardSelectionEndTime |-> cardSelectionEndTime, lives |-> lives,
   toRemoveBullets |-> {}, toRemoveBalls |-> {},
   areaDamageHits |-> areaDamageHits, bulletHits |-> bulletHits,
   moves |-> << >>, exited |-> 0]

\* The tick works on a record of the module-level state plus the locals of
\* gameTick (toRemoveBullets, toRemoveBalls, the two hit lists, the per-bullet
\* _moveX/_moveY pairs) and is written back when the tick returns.
World ==
  [players |-> players, bullets |-> bullets, balls |-> balls,
   nextBulletId |-> nextBulletId, nextBallId |-> nextBallId,
   tickCount |-> tickCount, gamePhase |-> gamePhase, wave |-> wave,
   waveWeightSpawned |-> waveWeightSpawned, lastSpawnTick |-> lastSpawnTick,
   cardSelectionEndTime |-> cardSelectionEndTime, lives |-> lives,
   toRemoveBullets |-> {}, toRemoveBalls |-> {},
   areaDamageHits |-> << >>, bulletHits |-> << >>,
   moves |-> << >>, exited |-> 0]

MapSeq(f(_), seq) == [i \in Idx(seq) |-> f(seq[i])]

\* mutant of TickSpawn: the game is declared over one life early
TickSpawnEarlyOver(w0, draw) ==
  LET w1 == [w0 EXCEPT !.tickCount = @ + 1]
      w2 == IF w1.lives <= 1 /\ w1.gamePhase = "playing"
            THEN [w1 EXCEPT !.gamePhase = "gameOver"] ELSE w1
      canSpawn == ~BudgetSpent(w2.waveWeightSpawned, w2.wave)
      timeToSpawn == w2.tickCount - w2.lastSpawnTick >= spawnIntervalTicks(w2.wave)
      type == pickBallType(draw.r10)
  IN IF gameStarted /\ w2.gamePhase = "playing" /\ w2.lives > 0
        /\ canSpawn /\ timeToSpawn
     THEN [w2 EXCEPT !.balls = Append(@, spawnBall(w2.nextBallId, type, draw.u)),
                     !.nextBallId = @ + 1,
                     !.waveWeightSpawned = @ + BALL_TYPES(type).waveWeight2,
                     !.lastSpawnTick = w2.tickCount]
     ELSE w2

\* lines 150-162: tickCount++, game over, spawn
\* draw = [r10, u]: the two Math.random() values spawnBall consumes
TickSpawn(w0, draw) ==
  LET w1 == [w0 EXCEPT !.tickCount = @ + 1]
      w2 == IF w1.lives <= 0 /\ w1.gamePhase = "playing"
            THEN [w1 EXCEPT !.gamePhase = "gameOver"] ELSE w1
      canSpawn == ~BudgetSpent(w2.waveWeightSpawned, w2.wave)
      timeToSpawn == w2.tickCount - w2.lastSpawnTick >= spawnIntervalTicks(w2.wave)
      type == pickBallType(draw.r10)
  IN IF gameStarted /\ w2.gamePhase = "playing" /\ w2.lives > 0
        /\ canSpawn /\ timeToSpawn
     THEN [w2 EXCEPT !.balls = Append(@, spawnBall(w2.nextBallId, type, draw.u)),
                     !.nextBallId = @ + 1,
                     !.waveWeightSpawned = @ + BALL_TYPES(type).waveWeight2,
                     !.lastSpawnTick = w2.tickCount]
     ELSE w2

\* mutant of EnterCardSelection: the balls.size === 0 test is missing
EnterCardSelectionBallsLeft(w, offer, t) ==
  IF gameStarted /\ w.gamePhase = "playing" /\ w.lives > 0
     /\ BudgetSpent(w.waveWeightSpawned, w.wave)
  THEN [w EXCEPT !.gamePhase = "cardSelection",
                 !.cardSelectionEndTime = t + CARD_SELECTION_MS,
                 !.players = MapSeq(LAMBDA p : [p EXCEPT !.offeredCards = offer,
                                                         !.cardSelected = FALSE], @)]
  ELSE w

\* mutant of EnterCardSelection: the wave counts as cleared with one ball left
EnterCardSelectionLastBall(w, offer, t) ==
  IF gameStarted /\ w.gamePhase = "playing" /\ w.lives > 0
     /\ BudgetSpent(w.waveWeightSpawned, w.wave) /\ Len(w.balls) <= 1
  THEN [w EXCEPT !.gamePhase = "cardSelection",
                 !.cardSelectionEndTime = t + CARD_SELECTION_MS,
                 !.players = MapSeq(LAMBDA p : [p EXCEPT !.offeredCards = offer,
                                                         !.cardSelected = FALSE], @)]
  ELSE w

\* mutant of EnterCardSelection: the deadline is not recorded
EnterCardSelectionNoDeadline(w, offer, t) ==
  IF gameStarted /\ w.gamePhase = "playing" /\ w.lives > 0
     /\ BudgetSpent(w.waveWeightSpawned, w.wave) /\ Len(w.balls) = 0
  THEN [w EXCEPT !.gamePhase = "cardSelection",
                 !.players = MapSeq(LAMBDA p : [p EXCEPT !.offeredCards = offer,
                                                         !.cardSelected = FALSE], @)]
  ELSE w

\* lines 164-174: enter card selection when the wave is complete
\* offer = the three cards drawn; t = Date.now()
EnterCardSelection(w, offer, t) ==
  IF gameStarted /\ w.gamePhase = "playing" /\ w.lives > 0
     /\ BudgetSpent(w.waveWeightSpawned, w.wave) /\ Len(w.balls) = 0
  THEN [w EXCEPT !.gamePhase = "cardSelection",
                 !.cardSelectionEndTime = t + CARD_SELECTION_MS,
                 !.players = MapSeq(LAMBDA p : [p EXCEPT !.offeredCards = offer,
                                                         !.cardSelected = FALSE], @)]
  ELSE w

\* mutant of EndCardSelection: only the timeout ends the selection
EndCardSelectionTimeoutOnly(w, t) ==
  LET timeout == t >= w.cardSelectionEndTime
  IN IF w.gamePhase = "cardSelection" /\ timeout
     THEN [w EXCEPT !.gamePhase = "playing",
                    !.wave = @ + 1,
                    !.waveWeightSpawned = 0,
                    !.players = MapSeq(LAMBDA p : [p EXCEPT !.offeredCards = << >>,
                                                            !.cardSelected = FALSE], @)]
     ELSE w

\* mutant of EndCardSelection: the deadline test is > instead of >=
EndCardSelectionLate(w, t) ==
  LET allSelected == \A i \in Idx(w.players) : w.players[i].cardSelected
      timeout == t > w.cardSelectionEndTime
  IN IF w.gamePhase = "cardSelection" /\ (allSelected \/ timeout)
     THEN [w EXCEPT !.gamePhase = "playing",
                    !.wave = @ + 1,
                    !.waveWeightSpawned = 0,
                    !.players = MapSeq(LAMBDA p : [p EXCEPT !.offeredCards = << >>,
                                                            !.cardSelected = FALSE], @)]
     ELSE w

\* mutant of EndCardSelection: the spent budget is not reset
EndCardSelectionKeepSpent(w, t) ==
  LET allSelected == \A i \in Idx(w.players) : w.players[i].cardSelected
      timeout == t >= w.cardSelectionEndTime
  IN IF w.gamePhase = "cardSelection" /\ (allSelected \/ timeout)
     THEN [w EXCEPT !.gamePhase = "playing",
                    !.wave = @ + 1,
                    !.players = MapSeq(LAMBDA p : [p EXCEPT !.offeredCards = << >>,
                                                            !.cardSelected = FALSE], @)]
     ELSE w

\* lines 177-189: end card selection on timeout or all selected
EndCardSelection(w, t) ==
  LET allSelected == \A i \in Idx(w.players) : w.players[i].cardSelected
      timeout == t >= w.cardSelectionEndTime
  IN IF w.gamePhase = "cardSelection" /\ (allSelected \/ timeout)
     THEN [w EXCEPT !.gamePhase = "playing",
                    !.wave = @ + 1,
                    !.waveWeightSpawned = 0,
                    !.players = MapSeq(LAMBDA p : [p EXCEPT !.offeredCards = << >>,
                                                            !.cardSelected = FALSE], @)]
     ELSE w

\* lines 192-199: process player input (frozen when game over)
MovePlayer(p) ==
  LET x1 == IF p.keys.left THEN Max(PLAYER_RADIUS, p.x - PLAYER_SPEED) ELSE p.x
      x2 == IF p.keys.right THEN Min(ROOM_WIDTH - PLAYER_RADIUS, x1 + PLAYER_SPEED) ELSE x1
      y1 == IF p.keys.up THEN Max(PLAYER_RADIUS, p.y - PLAYER_SPEED) ELSE p.y
      y2 == IF p.keys.down THEN Min(ROOM_HEIGHT - PLAYER_RADIUS, y1 + PLAYER_SPEED) ELSE y1
  IN [p EXCEPT !.x = x2, !.y = y2]

\* mutant of ProcessInput: input is integrated in every phase
ProcessInputAlways(w) == [w EXCEPT !.players = MapSeq(MovePlayer, @)]

ProcessInput(w) ==
  IF w.gamePhase # "gameOver"
  THEN [w EXCEPT !.players = MapSeq(MovePlayer, @)]
  ELSE w

\* ------------------------------------------------- collision pass (201-253)
\* BULLET_DAMAGE * 0.1 * 1.1^(areaLevel-1), in hp units
AreaDamage(areaLevel) ==
  (BULLET_DAMAGE * HpScale * Pow(11, areaLevel - 1)) \div Pow(10, areaLevel)

\* lines 242-247: splash on every other ball within AREA_DAMAGE_RADIUS of ball j
RECURSIVE Splash(_, _, _, _)
Splash(w, j, k, areaDmg) ==
  IF k > Len(w.balls) THEN w
  ELSE LET ball == w.balls[j]
           b == w.balls[k]
           near == (b.x - ball.x) * (b.x - ball.x) + (b.y - ball.y) * (b.y - ball.y)
                     <= AREA_DAMAGE_RADIUS * AREA_DAMAGE_RADIUS
           hp == b.hp - areaDmg
       IN IF b.id # ball.id /\ near
          THEN Splash([w EXCEPT !.balls[k].hp = hp,
                                !.toRemoveBalls = IF hp <= 0 THEN @ \cup {b.id} ELSE @],
                      j, k + 1, areaDmg)
          ELSE Splash(w, j, k + 1, areaDmg)

\* mutant of HitBall: the knock-back also moves the ball sideways
HitBallSideways(w, c, j, roll) ==
  LET ball == w.balls[j]
      crit == ~c.bullet.homing /\ roll.crit < c.criticalChance
      dmg == IF crit THEN c.damage * 2 ELSE c.damage
      hp == ball.hp - dmg
      pushed == ~c.bullet.homing /\ roll.push < c.pusherChance
      ignited == ~c.bullet.homing /\ c.ignitionChance > 0 /\ roll.ignite < c.ignitionChance
      spent == c.bullet.homing \/ roll.pierce >= c.pierceChance
      ball2 == [ball EXCEPT !.hp = hp,
                            !.y = IF pushed THEN @ - PUSHER_STRENGTH ELSE @,
                            !.x = IF pushed THEN @ + PUSHER_STRENGTH ELSE @,
                            !.burnEndTick = IF ignited
                                            THEN w.tickCount + BURN_DURATION_TICKS ELSE @]
      w1 == [w EXCEPT !.bulletHits = Append(@, [x |-> ball.x, y |-> ball.y]),
                      !.balls[j] = ball2,
                      !.toRemoveBalls = IF hp <= 0 THEN @ \cup {ball.id} ELSE @,
                      !.toRemoveBullets = IF spent THEN @ \cup {c.bullet.id} ELSE @]
  IN IF ~bulletHitsBall(c.bullet, ball, c.moveX, c.moveY) THEN w
     ELSE IF ~c.bullet.homing /\ c.areaLevel > 0
     THEN Splash([w1 EXCEPT !.areaDamageHits = Append(@, [x |-> ball2.x, y |-> ball2.y])],
                 j, 1, AreaDamage(c.areaLevel))
     ELSE w1

\* mutant of HitBall: a ball brought to exactly 0 hp is not marked for removal
HitBallNoKill(w, c, j, roll) ==
  LET ball == w.balls[j]
      crit == ~c.bullet.homing /\ roll.crit < c.criticalChance
      dmg == IF crit THEN c.damage * 2 ELSE c.damage
      hp == ball.hp - dmg
      pushed == ~c.bullet.homing /\ roll.push < c.pusherChance
      ignited == ~c.bullet.homing /\ c.ignitionChance > 0 /\ roll.ignite < c.ignitionChance
      spent == c.bullet.homing \/ roll.pierce >= c.pierceChance
      ball2 == [ball EXCEPT !.hp = hp,
                            !.y = IF pushed THEN @ - PUSHER_STRENGTH ELSE @,
                            !.burnEndTick = IF ignited
                                            THEN w.tickCount + BURN_DURATION_TICKS ELSE @]
      w1 == [w EXCEPT !.bulletHits = Append(@, [x |-> ball.x, y |-> ball.y]),
                      !.balls[j] = ball2,
                      !.toRemoveBalls = IF hp < 0 THEN @ \cup {ball.id} ELSE @,
                      !.toRemoveBullets = IF spent THEN @ \cup {c.bullet.id} ELSE @]
  IN IF ~bulletHitsBall(c.bullet, ball, c.moveX, c.moveY) THEN w
     ELSE IF ~c.bullet.homing /\ c.areaLevel > 0
     THEN Splash([w1 EXCEPT !.areaDamageHits = Append(@, [x |-> ball2.x, y |-> ball2.y])],
                 j, 1, AreaDamage(c.areaLevel))
     ELSE w1

\* lines 230-249: one bullet against ball j.  c carries the bullet and the
\* locals computed for it; roll carries Math.random() * 100 for each test.
HitBall(w, c, j, roll) ==
  LET ball == w.balls[j]
      crit == ~c.bullet.homing /\ roll.crit < c.criticalChance
      dmg == IF crit THEN c.damage * 2 ELSE c.damage
      hp == ball.hp - dmg
      pushed == ~c.bullet.homing /\ roll.push < c.pusherChance
      ignited == ~c.bullet.homing /\ c.ignitionChance > 0 /\ roll.ignite < c.ignitionChance
      spent == c.bullet.homing \/ roll.pierce >= c.pierceChance
      ball2 == [ball EXCEPT !.hp = hp,
                            !.y = IF pushed THEN @ - PUSHER_STRENGTH ELSE @,
                            !.burnEndTick = IF ignited
                                            THEN w.tickCount + BURN_DURATION_TICKS ELSE @]
      w1 == [w EXCEPT !.bulletHits = Append(@, [x |-> ball.x, y |-> ball.y]),
                      !.balls[j] = ball2,
                      !.toRemoveBalls = IF hp <= 0 THEN @ \cup {ball.id} ELSE @,
                      !.toRemoveBullets = IF spent THEN @ \cup {c.bullet.id} ELSE @]
  IN IF ~bulletHitsBall(c.bullet, ball, c.moveX, c.moveY) THEN w
     ELSE IF ~c.bullet.homing /\ c.areaLevel > 0
     THEN Splash([w1 EXCEPT !.areaDamageHits = Append(@, [x |-> ball2.x, y |-> ball2.y])],
                 j, 1, AreaDamage(c.areaLevel))
     ELSE w1

RECURSIVE HitBalls(_, _, _, _)
HitBalls(w, c, j, roll) ==
  IF j > Len(w.balls) THEN w
  ELSE HitBalls(HitBall(w, c, j, roll), c, j + 1, roll)

\* lines 213-218: the step of a homing bullet toward its target, in whole pixels
HomingMove(bullet, target) ==
  LET dx == target.x - bullet.x
      dy == target.y - bullet.y
      h == ISqrt(dx * dx + dy * dy)
      len == IF h = 0 THEN 1 ELSE h
  IN [x |-> MulDivTrunc(dx, BULLET_SPEED, len), y |-> MulDivTrunc(dy, BULLET_SPEED, len)]

\* mutant of CollideBullet: a homing bullet that lost its target flies on
CollideBulletKeepLost(w, i, roll) ==
  LET bullet == w.bullets[i]
      t == IndexOfId(w.balls, bullet.targetBallId)
      o == IndexOfId(w.players, bullet.ownerId)
      hasOwner == ~bullet.homing /\ o # 0
      hm == HomingMove(bullet, w.balls[t])
      c == [bullet |-> bullet,
            moveX |-> IF bullet.homing THEN hm.x ELSE bullet.vx,
            moveY |-> IF bullet.homing THEN hm.y ELSE bullet.vy,
            damage |-> IF bullet.homing THEN bullet.damage ELSE BULLET_DAMAGE * HpScale,
            criticalChance |-> IF hasOwner THEN w.players[o].criticalChance ELSE 0,
            pierceChance |-> IF hasOwner THEN w.players[o].pierceChance ELSE 0,
            areaLevel |-> IF hasOwner THEN w.players[o].areaDamageLevel ELSE 0,
            pusherChance |-> IF hasOwner THEN w.players[o].pusherChance ELSE 0,
            ignitionChance |-> IF hasOwner THEN w.players[o].ignitionChance ELSE 0]
  IN IF bullet.homing /\ t = 0
     THEN [w EXCEPT !.moves = Append(@, [x |-> 0, y |-> 0 - BULLET_SPEED])]
     ELSE [HitBalls(w, c, 1, roll) EXCEPT !.moves = Append(@, [x |-> c.moveX, y |-> c.moveY])]

\* lines 206-253 for bullet i
CollideBullet(w, i, roll) ==
  LET bullet == w.bullets[i]
      t == IndexOfId(w.balls, bullet.targetBallId)
      o == IndexOfId(w.players, bullet.ownerId)
      hasOwner == ~bullet.homing /\ o # 0
      hm == HomingMove(bullet, w.balls[t])
      c == [bullet |-> bullet,
            moveX |-> IF bullet.homing THEN hm.x ELSE bullet.vx,
            moveY |-> IF bullet.homing THEN hm.y ELSE bullet.vy,
            damage |-> IF bullet.homing THEN bullet.damage ELSE BULLET_DAMAGE * HpScale,
            criticalChance |-> IF hasOwner THEN w.players[o].criticalChance ELSE 0,
            pierceChance |-> IF hasOwner THEN w.players[o].pierceChance ELSE 0,
            areaLevel |-> IF hasOwner THEN w.players[o].areaDamageLevel ELSE 0,
            pusherChance |-> IF hasOwner THEN w.players[o].pusherChance ELSE 0,
            ignitionChance |-> IF hasOwner THEN w.players[o].ignitionChance ELSE 0]
  IN IF bullet.homing /\ t = 0
     THEN [w EXCEPT !.toRemoveBullets = @ \cup {bullet.id},
                    !.moves = Append(@, [x |-> 0, y |-> 0 - BULLET_SPEED])]
     ELSE [HitBalls(w, c, 1, roll) EXCEPT !.moves = Append(@, [x |-> c.moveX, y |-> c.moveY])]

RECURSIVE CollideFrom(_, _, _)
CollideFrom(w, i, roll) ==
  IF i > Len(w.bullets) THEN w
  ELSE CollideFrom(CollideBullet(w, i, roll), i + 1, roll)

CollisionPass(w, roll) == CollideFrom(w, 1, roll)

\* ------------------------------------------------ bullet movement (255-278)
MoveBullet(b, m) ==
  LET x0 == b.x + m.x
      y0 == b.y + m.y
      vel == ~b.homing /\ b.hasVel
      vx0 == IF vel THEN m.x ELSE b.vx
      vy0 == IF vel THEN m.y ELSE b.vy
      bl0 == b.bouncesLeft
      \* the four edge tests, in order, each on the values the previous left
      hitL == bl0 > 0 /\ x0 < BULLET_RADIUS
      x1 == IF hitL THEN BULLET_RADIUS ELSE x0
      vx1 == IF hitL THEN 0 - vx0 ELSE vx0
      bl1 == IF hitL THEN bl0 - 1 ELSE bl0
      hitR == bl0 > 0 /\ x1 > ROOM_WIDTH - BULLET_RADIUS
      x2 == IF hitR THEN ROOM_WIDTH - BULLET_RADIUS ELSE x1
      vx2 == IF hitR THEN 0 - vx1 ELSE vx1
      bl2 == IF hitR THEN bl1 - 1 ELSE bl1
      hitT == bl0 > 0 /\ y0 < BULLET_RADIUS
      y1 == IF hitT THEN BULLET_RADIUS ELSE y0
      vy1 == IF hitT THEN 0 - vy0 ELSE vy0
      bl3 == IF hitT THEN bl2 - 1 ELSE bl2
      hitB == bl0 > 0 /\ y1 > ROOM_HEIGHT - BULLET_RADIUS
      y2 == IF hitB THEN ROOM_HEIGHT - BULLET_RADIUS ELSE y1
      vy2 == IF hitB THEN 0 - vy1 ELSE vy1
      bl4 == IF hitB THEN bl3 - 1 ELSE bl3
  IN [b EXCEPT !.x = x2, !.y = y2, !.vx = vx2, !.vy = vy2,
               !.bouncesLeft = IF bl0 > 0 THEN Max(0, bl4) ELSE bl0]

OutOfRoom(b) ==
  \/ b.y < 0 - BULLET_RADIUS
  \/ b.y > ROOM_HEIGHT + BULLET_RADIUS
  \/ b.x < 0 - BULLET_RADIUS
  \/ b.x > ROOM_WIDTH + BULLET_RADIUS

MoveBullets(w) ==
  LET moved == [i \in Idx(w.bullets) |-> MoveBullet(w.bullets[i], w.moves[i])]
      gone == w.toRemoveBullets \cup {moved[i].id : i \in {k \in Idx(moved) : OutOfRoom(moved[k])}}
  IN [w EXCEPT !.bullets = RemoveIds(moved, gone), !.toRemoveBullets = gone, !.moves = << >>]

\* ------------------------------------------------- bullet spawning (280-324)
NewBullet(id, p, i) ==
  LET count == p.bulletCount
      \* (i - (count - 1) / 2) * 16 for i = 0 .. count-1
      dx == IF count > 1 THEN (2 * i - (count - 1)) * 8 ELSE 0
  IN [id |-> id, x |-> p.x + dx, y |-> p.y, ownerId |-> p.id, radius |-> BULLET_RADIUS,
      homing |-> FALSE, targetBallId |-> 0, damage |-> 0,
      hasVel |-> p.bounceCount > 0, vx |-> 0, vy |-> 0 - BULLET_SPEED,
      bouncesLeft |-> p.bounceCount]

\* lines 304-309: index of the nearest ball strictly within MELEE_RANGE (0: none)
RECURSIVE NearestFrom(_, _, _, _, _)
NearestFrom(bs, p, k, best, bestSq) ==
  IF k > Len(bs) THEN best
  ELSE LET dSq == (bs[k].x - p.x) * (bs[k].x - p.x) + (bs[k].y - p.y) * (bs[k].y - p.y)
       IN IF dSq < bestSq THEN NearestFrom(bs, p, k + 1, k, dSq)
          ELSE NearestFrom(bs, p, k + 1, best, bestSq)
Nearest(bs, p) == NearestFrom(bs, p, 1, 0, MELEE_RANGE * MELEE_RANGE)

HomingBullet(id, p, target) ==
  [id |-> id, x |-> p.x, y |-> p.y, ownerId |-> p.id, radius |-> BULLET_RADIUS,
   homing |-> TRUE, targetBallId |-> target.id, damage |-> p.meleeDamage * HpScale,
   hasVel |-> FALSE, vx |-> 0, vy |-> 0 - BULLET_SPEED, bouncesLeft |-> 0]

\* mutant of SpawnForPlayer: the homing bullet reuses the id of the last
\* regular bullet
SpawnForPlayerSameId(w, p) ==
  LET regular == [i \in 1 .. p.bulletCount |-> NewBullet(w.nextBulletId + i - 1, p, i - 1)]
      nextId == w.nextBulletId + p.bulletCount
      n == Nearest(w.balls, p)
      melee == p.meleeDamage > 0 /\ w.tickCount % MELEE_BULLET_INTERVAL = 0 /\ n # 0
  IN IF melee
     THEN [w EXCEPT !.bullets = (@ \o regular) \o <<HomingBullet(nextId - 1, p, w.balls[n])>>,
                    !.nextBulletId = nextId]
     ELSE [w EXCEPT !.bullets = @ \o regular, !.nextBulletId = nextId]

\* lines 283-322: the bullets of one player
SpawnForPlayer(w, p) ==
  LET regular == [i \in 1 .. p.bulletCount |-> NewBullet(w.nextBulletId + i - 1, p, i - 1)]
      nextId == w.nextBulletId + p.bulletCount
      n == Nearest(w.balls, p)
      melee == p.meleeDamage > 0 /\ w.tickCount % MELEE_BULLET_INTERVAL = 0 /\ n # 0
  IN IF melee
     THEN [w EXCEPT !.bullets = (@ \o regular) \o <<HomingBullet(nextId, p, w.balls[n])>>,
                    !.nextBulletId = nextId + 1]
     ELSE [w EXCEPT !.bullets = @ \o regular, !.nextBulletId = nextId]

RECURSIVE SpawnFrom(_, _)
SpawnFrom(w, i) ==
  IF i > Len(w.players) THEN w
  ELSE SpawnFrom(SpawnForPlayer(w, w.players[i]), i + 1)

SpawnBullets(w) ==
  IF gameStarted /\ w.gamePhase = "playing" /\ w.lives > 0 THEN SpawnFrom(w, 1) ELSE w

\* --------------------------------------------------- burn damage (325-331)
BurnBall(b, tick) ==
  IF b.burnEndTick # NoBurn /\ tick < b.burnEndTick
  THEN [b EXCEPT !.hp = @ - 1 * HpScale] ELSE b

BurnDamage(w) ==
  LET burnt == [i \in Idx(w.balls) |-> BurnBall(w.balls[i], w.tickCount)]
      dead == {burnt[i].id : i \in {k \in Idx(burnt) : burnt[k].hp # w.balls[k].hp
                                                      /\ burnt[k].hp <= 0}}
  IN [w EXCEPT !.balls = burnt, !.toRemoveBalls = @ \cup dead]

\* ------------------------------------------ ball movement, lives (333-342)
MoveBall(b) == [b EXCEPT !.y = @ + b.speed]
OffBottom(b) == b.y > ROOM_HEIGHT + b.radius

\* mutant of ClampLives: no floor
ClampLivesNoFloor(n) == n

\* line 342
ClampLives(n) == IF n < 0 THEN 0 ELSE n

\* mutant of MoveBalls: a ball leaving the field costs no life
MoveBallsNoLoss(w) ==
  LET moved == [i \in Idx(w.balls) |-> MoveBall(w.balls[i])]
      out == {k \in Idx(moved) : OffBottom(moved[k])}
      gone == w.toRemoveBalls \cup {moved[k].id : k \in out}
  IN [w EXCEPT !.balls = RemoveIds(moved, gone),
               !.toRemoveBalls = gone,
               !.exited = Cardinality(out)]

MoveBalls(w) ==
  LET moved == [i \in Idx(w.balls) |-> MoveBall(w.balls[i])]
      out == {k \in Idx(moved) : OffBottom(moved[k])}
      gone == w.toRemoveBalls \cup {moved[k].id : k \in out}
  IN [w EXCEPT !.balls = RemoveIds(moved, gone),
               !.toRemoveBalls = gone,
               !.exited = Cardinality(out),
               !.lives = ClampLives(@ - Cardinality(out))]

\* mutant of gameTick: the bullets are spawned before the collision pass
gameTickSpawnFirst(w, in) ==
  MoveBalls(BurnDamage(MoveBullets(CollisionPass(SpawnBullets(ProcessInput(
    EndCardSelection(EnterCardSelection(TickSpawn(w, in.draw), in.offer, in.t), in.t))),
    in.roll))))

\* gameTick, start to finish, on the inputs it reads from outside:
\* in = [draw, offer, roll, t]
gameTick(w, in) ==
  MoveBalls(BurnDamage(SpawnBullets(MoveBullets(CollisionPass(ProcessInput(
    EndCardSelection(EnterCardSelection(TickSpawn(w, in.draw), in.offer, in.t), in.t)),
    in.roll)))))

\* ------------------------------------------------------ inputs explored
\* Math.random() for spawnBall: a cycle of draws [r10, u], fixed when the
\* process starts; ball number n of a game receives draw ((n-1) mod length)+1.
\* The first twenty balls are fast, the later ones normal, all in the column
\* x = 360.
MixedStream == [i \in 1 .. 64 |-> IF i <= 20 THEN [r10 |-> 40, u |-> 500]
                                             ELSE [r10 |-> 10, u |-> 500]]
SpawnStreams == { MixedStream }

\* A second sequence with the same first twenty draws: the twenty-first ball
\* is a normal one in the column x = 360, the later ones are normal balls at
\* the right edge (x = 675).
LateStream == [i \in 1 .. 64 |-> IF i <= 20 THEN [r10 |-> 40, u |-> 500]
                                 ELSE IF i = 21 THEN [r10 |-> 10, u |-> 500]
                                 ELSE [r10 |-> 10, u |-> 999]]

SpawnDraw == rng[((nextBallId - 1) % Len(rng)) + 1]

\* Math.floor(Math.random() * CARD_TYPES.length) for the three offered cards
CardDraws == { <<0, 1, 2>>, <<3, 4, 5>>, <<6, 7, 8>> }
Offer(d) == [i \in 1 .. 3 |-> CARD_TYPES[d[i] + 1]]

WaveComplete ==
  gameStarted /\ gamePhase = "playing" /\ lives > 0
  /\ BudgetSpent(waveWeightSpawned, wave) /\ Len(balls) = 0

\* the draws are enumerated only in the ticks that read them
OfferChoices ==
  IF WaveComplete /\ Len(players) > 0
  THEN {Offer(d) : d \in CardDraws} ELSE {Offer(<<0, 1, 2>>)}

\* Math.random() * 100 in the four chance tests: 0 passes any positive chance,
\* 99 fails any chance below 100
Percent(active) == IF active THEN {0, 99} ELSE {99}
Fighting == Len(bullets) > 0 /\ Len(balls) > 0
RollChoices ==
  [crit : Percent(Fighting /\ \E i \in Idx(players) : players[i].criticalChance > 0),
   push : Percent(Fighting /\ \E i \in Idx(players) : players[i].pusherChance > 0),
   ignite : Percent(Fighting /\ \E i \in Idx(players) : players[i].ignitionChance > 0),
   pierce : Percent(Fighting /\ \E i \in Idx(players) : players[i].pierceChance > 0)]

\* Date.now(): the clock is read against the deadline only during card
\* selection; it is advanced in steps of the selection period, there only
ClockStepMs == CARD_SELECTION_MS
TimeChoices ==
  IF gamePhase = "cardSelection" /\ now < MaxClockSteps * ClockStepMs
  THEN {now, now + ClockStepMs} ELSE {now}

TickInputs ==
  [draw : {SpawnDraw}, offer : OfferChoices, roll : RollChoices, t : TimeChoices]

KeyInputs == { NoKeys, [NoKeys EXCEPT !.left = TRUE] }
CardIndexes == 0 .. 3

\* connects and disconnects are explored outside the middle of a wave: before
\* the game starts, in the first JoinWindow ticks of a game, when the wave is
\* complete, during card selection and after game over
MidWave ==
  /\ gameStarted /\ gamePhase = "playing"
  /\ tickCount > JoinWindow
  /\ ~(BudgetSpent(waveWeightSpawned, wave) /\ Len(balls) = 0)

\* a game on LateStream is followed to the bottom of the room, and a second
\* player may join it in the ticks LateJoinTick .. LateJoinTick + LateJoinSpan - 1
JoinLate ==
  /\ rng = LateStream
  /\ LateJoinTick <= tickCount /\ tickCount < LateJoinTick + LateJoinSpan

\* key changes are explored after game over and in the ticks before startGame
KeysExplored == gamePhase = "gameOver" \/ (~gameStarted /\ tickCount > 0)

\* ------------------------------------------------------------------ Init
Init ==
  /\ players = << >> /\ bullets = << >> /\ balls = << >>
  /\ nextPlayerId = 1 /\ nextBulletId = 1 /\ nextBallId = 1
  /\ tickCount = 0 /\ gameStarted = FALSE /\ gamePhase = "playing"
  /\ wave = 1 /\ waveWeightSpawned = 0 /\ lastSpawnTick = 0
  /\ cardSelectionEndTime = 0 /\ lives = 10
  /\ now = 0
  /\ rng \in SpawnStreams
  /\ areaDamageHits = << >> /\ bulletHits = << >> /\ exited = 0
  /\ stateBuffer = << >> /\ perfNow = 0 /\ rendered = NoState

\* mutant of ApplyCard: the critical card sets the chance instead of adding
ApplyCardSet(p, card) ==
  CASE card = "critical"      -> [p EXCEPT !.criticalChance = 10]
    [] card = "piercing"      -> [p EXCEPT !.pierceChance = @ + 10]
    [] card = "areaDamage"    -> [p EXCEPT !.areaDamageLevel = @ + 1]
    [] card = "bulletCount"   -> [p EXCEPT !.bulletCount = @ + 1]
    [] card = "pusher"        -> [p EXCEPT !.pusherChance = @ + 5]
    [] card = "ignition"      -> [p EXCEPT !.ignitionChance = @ + 1]
    [] card = "melee"         -> [p EXCEPT !.meleeDamage = @ + 1]
    [] card = "bouncyBullets" -> [p EXCEPT !.bounceCount = @ + 1]
    [] OTHER                  -> p

\* lines 414-422: the upgrade a card applies to the selecting player
ApplyCard(p, card) ==
  CASE card = "critical"      -> [p EXCEPT !.criticalChance = @ + 10]
    [] card = "piercing"      -> [p EXCEPT !.pierceChance = @ + 10]
    [] card = "areaDamage"    -> [p EXCEPT !.areaDamageLevel = @ + 1]
    [] card = "bulletCount"   -> [p EXCEPT !.bulletCount = @ + 1]
    [] card = "pusher"        -> [p EXCEPT !.pusherChance = @ + 5]
    [] card = "ignition"      -> [p EXCEPT !.ignitionChance = @ + 1]
    [] card = "melee"         -> [p EXCEPT !.meleeDamage = @ + 1]
    [] card = "bouncyBullets" -> [p EXCEPT !.bounceCount = @ + 1]
    [] OTHER                  -> p

\* ------------------------------------------------------- mid-game states
\* States of a later wave, reached by the process after a first wave played
\* as under Spec by one player standing at the spawn column (twenty fast
\* balls, the last spawned at tick 300, selection entered at tick 312, 311
\* bullets fired).
\*
\* Wave2Start: the selection of wave 1 was ended by the player's choice at
\* tick 400, all bullets having left the room; the player may have walked up
\* the column during the selection (input is processed in cardSelection).
Wave2Start == 100 * MELEE_BULLET_INTERVAL

\* Wave2Done: the same player then cleared wave 2 from the bottom of the
\* column (44 normal balls, the last spawned at tick 960, selection entered at
\* tick 1142, 741 more bullets fired); the state is taken 18 ticks into the
\* selection, when the last bullet has left the room.
Wave2Done == Wave2Start + 760

\* the upgrade taken after wave 1
ArenaCards == {"melee", "areaDamage", "pusher", "ignition"}
\* the bottom of the column, and 58 and 60 steps of PLAYER_SPEED up
ArenaYs == {ROOM_HEIGHT - 80, ROOM_HEIGHT - 80 - 58 * PLAYER_SPEED,
            ROOM_HEIGHT - 80 - 60 * PLAYER_SPEED}
\* the upgrades that leave the course of wave 2 as it is without them when
\* every roll fails
Wave2DoneCards == {"critical", "piercing", "pusher", "extraLife", "ignition"}

ArenaInit ==
  /\ gameStarted = TRUE /\ wave = 2
  /\ nextPlayerId = 2 /\ bullets = << >> /\ balls = << >>
  /\ now = 0 /\ cardSelectionEndTime = CARD_SELECTION_MS
  /\ areaDamageHits = << >> /\ bulletHits = << >> /\ exited = 0
  /\ stateBuffer = << >> /\ perfNow = 0 /\ rendered = NoState
  /\ \/ /\ gamePhase = "playing" /\ tickCount = Wave2Start
        /\ waveWeightSpawned = 0 /\ lastSpawnTick = 300
        /\ nextBallId = 21 /\ nextBulletId = 312
        /\ lives = INITIAL_LIVES
        /\ rng \in SpawnStreams
        /\ \E card \in ArenaCards : \E y \in ArenaYs :
             players = << [ApplyCard(NewPlayer(1), card) EXCEPT !.y = y] >>
     \/ /\ gamePhase = "cardSelection" /\ tickCount = Wave2Done
        /\ waveWeightSpawned = 44 /\ lastSpawnTick = 960
        /\ nextBallId = 65 /\ nextBulletId = 1053
        /\ rng \in SpawnStreams
        /\ \E card \in Wave2DoneCards : \E d \in CardDraws :
             /\ players = << [ApplyCard(NewPlayer(1), card)
                                EXCEPT !.offeredCards = Offer(d)] >>
             /\ lives = IF card = "extraLife" THEN INITIAL_LIVES + 1 ELSE INITIAL_LIVES

\* LateInit: wave 2 starts as in ArenaInit after the melee upgrade, the player
\* having walked four steps to the left and to the bottom edge during the
\* selection; the random sequence continues as LateStream.
LateInit ==
  /\ gameStarted = TRUE /\ wave = 2
  /\ nextPlayerId = 2 /\ bullets = << >> /\ balls = << >>
  /\ now = 0 /\ cardSelectionEndTime = CARD_SELECTION_MS
  /\ areaDamageHits = << >> /\ bulletHits = << >> /\ exited = 0
  /\ stateBuffer = << >> /\ perfNow = 0 /\ rendered = NoState
  /\ gamePhase = "playing" /\ tickCount = Wave2Start
  /\ waveWeightSpawned = 0 /\ lastSpawnTick = 300
  /\ nextBallId = 21 /\ nextBulletId = 312
  /\ lives = INITIAL_LIVES
  /\ rng = LateStream
  /\ players = << [ApplyCard(NewPlayer(1), "melee") EXCEPT !.x = ROOM_WIDTH \div 2 - 4 * PLAYER_SPEED,
                      !.y = ROOM_HEIGHT - PLAYER_RADIUS] >>

\* the ticks explored: MaxTick ticks of a game (JoinWindow before it starts),
\* and ArenaTicks or SelectionTicks ticks from a mid-game state
TickExplored ==
  IF ~gameStarted THEN tickCount < JoinWindow
  ELSE \/ tickCount < MaxTick
       \/ Wave2Start <= tickCount /\ tickCount < Wave2Start + ArenaTicks
       \/ Wave2Done <= tickCount /\ tickCount < Wave2Done + SelectionTicks
       \/ rng = LateStream /\ Wave2Start <= tickCount /\ tickCount < Wave2Start + LateTicks

\* --------------------------------------------------------------- actions
\* setInterval(gameTick, TICK_MS)
Tick ==
  /\ TickExplored
  /\ \E in \in TickInputs :
       \E w \in {gameTick(World, in)} :     \* evaluated once
          /\ players' = w.players /\ bullets' = w.bullets /\ balls' = w.balls
          /\ nextBulletId' = w.nextBulletId /\ nextBallId' = w.nextBallId
          /\ tickCount' = w.tickCount /\ gamePhase' = w.gamePhase /\ wave' = w.wave
          /\ waveWeightSpawned' = w.waveWeightSpawned
          /\ lastSpawnTick' = w.lastSpawnTick
          /\ cardSelectionEndTime' = w.cardSelectionEndTime
          /\ lives' = w.lives
          /\ areaDamageHits' = w.areaDamageHits /\ bulletHits' = w.bulletHits
          /\ exited' = w.exited
          /\ now' = in.t
  /\ UNCHANGED <<nextPlayerId, gameStarted, rng>>
  /\ UNCHANGED clientVars

\* io.on('connection')
Connect ==
  /\ nextPlayerId <= MaxPlayerId
  /\ ~MidWave \/ JoinLate
  /\ players' = Append(players, NewPlayer(nextPlayerId))
  /\ nextPlayerId' = nextPlayerId + 1
  /\ UNCHANGED <<bullets, balls, nextBulletId, nextBallId, tickCount, gameStarted,
                 gamePhase, wave, waveWeightSpawned, lastSpawnTick,
                 cardSelectionEndTime, lives, now, rng, areaDamageHits, bulletHits,
                 exited>>
  /\ UNCHANGED clientVars

\* socket.on('disconnect'), also reached through the inactivity check (438-447)
Disconnect(id) ==
  /\ id \in Ids(players)
  /\ ~MidWave
  /\ players' = RemoveIds(players, {id})
  /\ UNCHANGED <<bullets, balls, nextPlayerId, nextBulletId, nextBallId, tickCount,
                 gameStarted, gamePhase, wave, waveWeightSpawned, lastSpawnTick,
                 cardSelectionEndTime, lives, now, rng, areaDamageHits, bulletHits,
                 exited>>
  /\ UNCHANGED clientVars

\* socket.on('startGame')
StartGame(id) ==
  /\ id \in Ids(players)
  /\ gameStarted' = TRUE
  /\ UNCHANGED <<players, bullets, balls, nextPlayerId, nextBulletId, nextBallId,
                 tickCount, gamePhase, wave, waveWeightSpawned, lastSpawnTick,
                 cardSelectionEndTime, lives, now, rng, areaDamageHits, bulletHits,
                 exited>>
  /\ UNCHANGED clientVars

\* socket.on('restartGame'): resetGame(), then gameStarted = true
RestartGame(id) ==
  /\ id \in Ids(players)
  /\ bullets' = << >> /\ balls' = << >>
  /\ nextBulletId' = 1 /\ nextBallId' = 1
  /\ tickCount' = 0 /\ wave' = 1 /\ waveWeightSpawned' = 0 /\ lastSpawnTick' = 0
  /\ lives' = INITIAL_LIVES
  /\ players' = MapSeq(ResetPlayer, players)
  /\ gamePhase' = "playing"
  /\ gameStarted' = TRUE
  /\ UNCHANGED <<nextPlayerId, cardSelectionEndTime, now, rng, areaDamageHits,
                 bulletHits, exited>>
  /\ UNCHANGED clientVars

\* mutant of SelectAccepted: the already-selected test is missing
SelectAcceptedAgain(p, pos) ==
  /\ gamePhase = "cardSelection"
  /\ p.offeredCards # << >>
  /\ pos \in Idx(p.offeredCards)

\* line 410-412: the request is acted upon
\* (pos = cardIndex + 1, the position in the 1-based sequence)
SelectAccepted(p, pos) ==
  /\ gamePhase = "cardSelection"
  /\ p.offeredCards # << >>
  /\ ~p.cardSelected
  /\ pos \in Idx(p.offeredCards)         \* offeredCards[cardIndex] is defined

\* socket.on('selectCard'); cardIndex is 0-based
SelectCard(id, cardIndex) ==
  /\ id \in Ids(players)
  /\ LET i == IndexOfId(players, id)
         p == players[i]
         card == p.offeredCards[cardIndex + 1]
     IN IF SelectAccepted(p, cardIndex + 1)
        THEN /\ players' = [players EXCEPT ![i] = ApplyCard([p EXCEPT !.cardSelected = TRUE], card)]
             /\ lives' = IF card = "extraLife" THEN lives + 1 ELSE lives
        ELSE UNCHANGED <<players, lives>>
  /\ UNCHANGED <<bullets, balls, nextPlayerId, nextBulletId, nextBallId, tickCount,
                 gameStarted, gamePhase, wave, waveWeightSpawned, lastSpawnTick,
                 cardSelectionEndTime, now, rng, areaDamageHits, bulletHits, exited>>
  /\ UNCHANGED clientVars

\* socket.on('keys')
Keys(id, k) ==
  /\ id \in Ids(players)
  /\ KeysExplored
  /\ players' = [players EXCEPT ![IndexOfId(players, id)].keys = k]
  /\ UNCHANGED <<bullets, balls, nextPlayerId, nextBulletId, nextBallId, tickCount,
                 gameStarted, gamePhase, wave, waveWeightSpawned, lastSpawnTick,
                 cardSelectionEndTime, lives, now, rng, areaDamageHits, bulletHits,
                 exited>>
  /\ UNCHANGED clientVars

PlayerIds == 1 .. MaxPlayerId

Next ==
  \/ Tick
  \/ Connect
  \/ \E id \in PlayerIds : Disconnect(id)
  \/ \E id \in PlayerIds : StartGame(id)
  \/ \E id \in PlayerIds : RestartGame(id)
  \/ \E id \in PlayerIds : \E cardIndex \in CardIndexes : SelectCard(id, cardIndex)
  \/ \E id \in PlayerIds : \E k \in KeyInputs : Keys(id, k)

Spec == Init /\ [][Next]_vars

\* the same process, observed from a mid-game state on
ArenaSpec == ArenaInit /\ [][Next]_vars

\* a second wave followed until its first balls leave the room, with a
\* second player joining late
LateNext == Tick \/ Connect
LateSpec == LateInit /\ [][LateNext]_vars

\* ----------------------------------------------------- the swept test alone
\* bulletHitsBall and the bullet move (lines 206-259) applied tick after tick
\* to one bullet flying straight at one ball that stays where it is.  A shot
\* is a start position and a direction (ux, uy); the velocity is k times the
\* direction and the ball centre lies m * SweepStep directions ahead.
SweepStep == 37
SweepShots ==
  { [x |-> 360, y |-> 640, ux |-> 0, uy |-> 0 - 1, speeds |-> {1, 15, BULLET_SPEED}],
    [x |-> 360, y |-> 640, ux |-> 0, uy |-> 1, speeds |-> {1, 15, BULLET_SPEED}],
    [x |-> 360, y |-> 640, ux |-> 1, uy |-> 0, speeds |-> {1, 15, BULLET_SPEED}],
    [x |-> 360, y |-> 640, ux |-> 0 - 1, uy |-> 0, speeds |-> {1, 15, BULLET_SPEED}],
    \* a direction of length 5: 15 directions per tick are BULLET_SPEED px
    [x |-> 100, y |-> 1100, ux |-> 3, uy |-> 0 - 4, speeds |-> {1, 15}] }

SweepBullet(shot, k) ==
  [id |-> 1, x |-> shot.x, y |-> shot.y, ownerId |-> 0, radius |-> BULLET_RADIUS,
   homing |-> FALSE, targetBallId |-> 0, damage |-> 0,
   hasVel |-> TRUE, vx |-> k * shot.ux, vy |-> k * shot.uy, bouncesLeft |-> 0]

SweepBall(shot, m, type) ==
  [spawnBall(1, type, 0) EXCEPT !.x = shot.x + m * SweepStep * shot.ux,
                                !.y = shot.y + m * SweepStep * shot.uy,
                                !.speed = 0]

SweepInit ==
  /\ players = << >> /\ nextPlayerId = 1 /\ nextBulletId = 2 /\ nextBallId = 2
  /\ tickCount = 0 /\ gameStarted = FALSE /\ gamePhase = "playing"
  /\ wave = 1 /\ waveWeightSpawned = 0 /\ lastSpawnTick = 0
  /\ cardSelectionEndTime = 0 /\ lives = 10 /\ now = 0
  /\ rng \in SpawnStreams
  /\ areaDamageHits = << >> /\ bulletHits = << >> /\ exited = 0
  /\ stateBuffer = << >> /\ perfNow = 0 /\ rendered = NoState
  /\ \E shot \in SweepShots : \E k \in shot.speeds : \E m \in 1 .. MaxSweepDist :
       \E type \in {BALL_TYPE_KEYS[i] : i \in Idx(BALL_TYPE_KEYS)} :
         /\ bullets = << SweepBullet(shot, k) >>
         /\ balls = << SweepBall(shot, m, type) >>

NoLuck == [crit |-> 99, push |-> 99, ignite |-> 99, pierce |-> 99]

\* one tick of the collision pass and the bullet movement; the hit points
\* accumulate in bulletHits
SweepTick ==
  /\ Len(bullets) > 0
  /\ \E w \in {MoveBullets(CollisionPass([World EXCEPT !.tickCount = @ + 1], NoLuck))} :
       /\ bullets' = w.bullets /\ balls' = w.balls
       /\ bulletHits' = bulletHits \o w.bulletHits
       /\ tickCount' = w.tickCount
  /\ UNCHANGED <<players, nextPlayerId, nextBulletId, nextBallId, gameStarted,
                 gamePhase, wave, waveWeightSpawned, lastSpawnTick,
                 cardSelectionEndTime, lives, now, rng, areaDamageHits, exited>>
  /\ UNCHANGED clientVars

SweepNext == SweepTick

SweepSpec == SweepInit /\ [][SweepNext]_vars

\* --------------------------------------------------------------- the client
\* The reconciliation layer of the browser client (part_000): the snapshot
\* buffer filled by socket.on('state') and getInterpolatedState, which the
\* draw loop calls once per frame.  Times are performance.now() in whole ms.
\* Rendered coordinates are kept as exact fractions [n, d] (d > 0); the
\* client computes the same expressions in double precision.
INTERP_DELAY_MS == 50
MAX_BUFFER_MS == 400
SERVER_TICK_MS == [n |-> 1000, d |-> 15]
PX_PER_MS_BULLET == [n |-> BULLET_SPEED * SERVER_TICK_MS.d, d |-> SERVER_TICK_MS.n]

Frac(n, d) == [n |-> n, d |-> d]
Whole(i) == [n |-> i, d |-> 1]
SameFrac(a, b) == a.n * b.d = b.n * a.d

\* the snapshots the server emits in MaxSnapshots successive ticks of a scene:
\* player 1 (bouncy bullets, melee) walks right and fires a bullet with
\* velocity each tick; player 2 joins in tick 3, walks left and fires bullets
\* without velocity; a bullet of player 1 has bounced off the top and flies
\* down; a homing bullet fired in tick 2 closes in on a normal ball, which is
\* destroyed in tick 4; a fast ball spawns in tick 2
ScenePlayer(id, k) ==
  IF id = 1
  THEN [NewPlayer(1) EXCEPT !.x = @ + PLAYER_SPEED * k, !.meleeDamage = 1, !.bounceCount = 1]
  ELSE [NewPlayer(id) EXCEPT !.x = @ - PLAYER_SPEED * (k - 3)]
SceneBall(id, type, age) ==
  [spawnBall(id, type, 500) EXCEPT !.y = @ + BALL_TYPES(type).speed * age]
SceneBullet(id, j, k) ==
  [NewBullet(10 * id + j, ScenePlayer(id, j), 0) EXCEPT !.y = @ - BULLET_SPEED * (k - j)]
SceneBounced(k) ==
  [NewBullet(1, ScenePlayer(1, 0), 0)
     EXCEPT !.y = BULLET_RADIUS + BULLET_SPEED * k, !.vy = BULLET_SPEED, !.bouncesLeft = 0]
SceneHoming(k) ==
  [HomingBullet(9, ScenePlayer(1, 2), SceneBall(1, "normal", 152))
     EXCEPT !.x = @ - 3 * (k - 2), !.y = @ - BULLET_SPEED * (k - 2)]
Scene(k) ==
  [players |-> IF k >= 3 THEN <<ScenePlayer(1, k), ScenePlayer(2, k)>>
                         ELSE <<ScenePlayer(1, k)>>,
   balls |-> (IF k <= 3 THEN <<SceneBall(1, "normal", 150 + k)>> ELSE << >>)
             \o (IF k >= 2 THEN <<SceneBall(2, "fast", k - 2)>> ELSE << >>),
   bullets |-> ((<<SceneBounced(k)>> \o [j \in 1 .. k |-> SceneBullet(1, j, k)])
                \o (IF k >= 2 THEN <<SceneHoming(k)>> ELSE << >>))
               \o [j \in 1 .. k - 2 |-> SceneBullet(2, j + 2, k)]]

\* lines 28-30, with t = tn / td
lerpSnap(a, b, tn, td) == Whole(b)          \* mutant of lerp: no interpolation

lerp(a, b, tn, td) == Frac(a * td + (b - a) * tn, td)

\* lines 32-39: an entity missing from stateA is shown where stateB has it
lerpEntity(seqA, b, tn, td) ==
  LET i == IndexOfId(seqA, b.id)
  IN IF i = 0
     THEN [id |-> b.id, x |-> Whole(b.x), y |-> Whole(b.y)]
     ELSE [id |-> b.id, x |-> lerp(seqA[i].x, b.x, tn, td),
                        y |-> lerp(seqA[i].y, b.y, tn, td)]

\* lines 41-67: the entities of stateB, each interpolated from stateA
lerpState(stateA, stateB, tn, td) ==
  [players |-> [i \in Idx(stateB.players) |-> lerpEntity(stateA.players, stateB.players[i], tn, td)],
   balls |-> [i \in Idx(stateB.balls) |-> lerpEntity(stateA.balls, stateB.balls[i], tn, td)]]

\* line 241: prev.state is used as it is
Unchanged(state) ==
  [players |-> [i \in Idx(state.players) |->
                  [id |-> state.players[i].id, x |-> Whole(state.players[i].x),
                   y |-> Whole(state.players[i].y)]],
   balls |-> [i \in Idx(state.balls) |->
                [id |-> state.balls[i].id, x |-> Whole(state.balls[i].x),
                 y |-> Whole(state.balls[i].y)]]]

\* mutant of Extrapolate: homing bullets are extrapolated like the others
ExtrapolateAll(b, elapsed) ==
  IF b.hasVel
  THEN [id |-> b.id, homing |-> b.homing,
        x |-> Frac(b.x * SERVER_TICK_MS.n + b.vx * elapsed * SERVER_TICK_MS.d, SERVER_TICK_MS.n),
        y |-> Frac(b.y * SERVER_TICK_MS.n + b.vy * elapsed * SERVER_TICK_MS.d, SERVER_TICK_MS.n)]
  ELSE [id |-> b.id, homing |-> b.homing, x |-> Whole(b.x),
        y |-> Frac(b.y * PX_PER_MS_BULLET.d - PX_PER_MS_BULLET.n * elapsed, PX_PER_MS_BULLET.d)]

\* lines 251-267: one bullet of the latest snapshot, elapsed ms after receipt
Extrapolate(b, elapsed) ==
  IF b.homing
  THEN [id |-> b.id, homing |-> TRUE, x |-> Whole(b.x), y |-> Whole(b.y)]
  ELSE IF b.hasVel       \* b.vx != null || b.vy != null
  THEN [id |-> b.id, homing |-> FALSE,
        x |-> Frac(b.x * SERVER_TICK_MS.n + b.vx * elapsed * SERVER_TICK_MS.d, SERVER_TICK_MS.n),
        y |-> Frac(b.y * SERVER_TICK_MS.n + b.vy * elapsed * SERVER_TICK_MS.d, SERVER_TICK_MS.n)]
  ELSE [id |-> b.id, homing |-> FALSE, x |-> Whole(b.x),
        y |-> Frac(b.y * PX_PER_MS_BULLET.d - PX_PER_MS_BULLET.n * elapsed, PX_PER_MS_BULLET.d)]

\* lines 229-235: the pair of buffer positions to interpolate between
Brackets(buf, i, renderTime) ==
  buf[i].time <= renderTime /\ buf[i + 1].time >= renderTime
PrevIndex(buf, renderTime) ==
  IF \E i \in 1 .. Len(buf) - 1 : Brackets(buf, i, renderTime)
  THEN CHOOSE i \in 1 .. Len(buf) - 1 :
         /\ Brackets(buf, i, renderTime)
         /\ \A j \in 1 .. i - 1 : ~Brackets(buf, j, renderTime)
  ELSE 1
NextIndex(buf, renderTime) ==
  IF \E i \in 1 .. Len(buf) - 1 : Brackets(buf, i, renderTime)
  THEN PrevIndex(buf, renderTime) + 1
  ELSE Len(buf)

\* lines 243-244: dt and the clamped fraction alpha = n / d
Alpha(prev, next, renderTime) ==
  LET dt == IF next.time - prev.time = 0 THEN 1 ELSE next.time - prev.time
  IN Frac(Min(dt, Max(0, renderTime - prev.time)), dt)

\* lines 220-270 (buffer not empty)
getInterpolatedState(buf, t) ==
  LET renderTime == t - INTERP_DELAY_MS
      pi == PrevIndex(buf, renderTime)
      ni == NextIndex(buf, renderTime)
      alpha == Alpha(buf[pi], buf[ni], renderTime)
      state == IF pi = ni THEN Unchanged(buf[pi].state)
               ELSE lerpState(buf[pi].state, buf[ni].state, alpha.n, alpha.d)
      latest == buf[Len(buf)]
  IN [none |-> FALSE, players |-> state.players, balls |-> state.balls,
      bullets |-> [i \in Idx(latest.state.bullets) |->
                     Extrapolate(latest.state.bullets[i], t - latest.time)]]

\* mutant of Trim: nothing is dropped
TrimNothing(buf, cutoff) == buf

\* lines 101-105: drop the oldest snapshot while the one after it is older
\* than the cutoff
RECURSIVE Trim(_, _)
Trim(buf, cutoff) ==
  IF Len(buf) > 1 /\ buf[2].time < cutoff THEN Trim(Tail(buf), cutoff) ELSE buf

\* socket.on('state'): the server has run one more tick and its snapshot
\* arrives; tickCount is the tick of the newest snapshot received
ReceiveState ==
  /\ tickCount < MaxSnapshots
  /\ tickCount' = tickCount + 1
  /\ stateBuffer' = Trim(Append(stateBuffer, [time |-> perfNow, state |-> Scene(tickCount + 1)]),
                         perfNow - MAX_BUFFER_MS)
  /\ rendered' = NoState
  /\ UNCHANGED <<players, bullets, balls, nextPlayerId, nextBulletId, nextBallId,
                 gameStarted, gamePhase, wave, waveWeightSpawned, lastSpawnTick,
                 cardSelectionEndTime, lives, now, rng, areaDamageHits, bulletHits,
                 exited, perfNow>>

\* time passes between two events of the browser
Elapse ==
  /\ \E d \in FrameSteps :
       /\ perfNow + d <= MaxClientTime
       /\ perfNow' = perfNow + d
  /\ rendered' = NoState
  /\ UNCHANGED serverVars
  /\ UNCHANGED stateBuffer

\* draw(): one frame; the frame is a local of draw and is gone with the next event
Draw ==
  /\ rendered = NoState
  /\ Len(stateBuffer) > 0
  /\ rendered' = getInterpolatedState(stateBuffer, perfNow)
  /\ UNCHANGED serverVars
  /\ UNCHANGED <<stateBuffer, perfNow>>

ClientNext == ReceiveState \/ Elapse \/ Draw

ClientSpec == Init /\ [][ClientNext]_vars

\* ------------------------------------------------------------ vocabulary
IsTick == tickCount' = tickCount + 1
IsRestart == \E id \in PlayerIds : RestartGame(id)

Defaults(p) ==
  /\ p.criticalChance = 0 /\ p.pierceChance = 0 /\ p.areaDamageLevel = 0
  /\ p.bulletCount = 1 /\ p.pusherChance = 0 /\ p.ignitionChance = 0
  /\ p.meleeDamage = 0 /\ p.bounceCount = 0

Offered(p) == Len(p.offeredCards) = 3 /\ ~p.cardSelected

Mods(p) ==
  <<p.criticalChance, p.pierceChance, p.areaDamageLevel, p.bulletCount,
    p.pusherChance, p.ignitionChance, p.meleeDamage, p.bounceCount>>

\* ------------------------------------------------------------------ C11
\* the shot the flying bullet was fired as, its speed in directions per tick,
\* and the distance to the ball centre at the start, in directions
ShotOf(b) ==
  CHOOSE shot \in SweepShots :
    \E k \in shot.speeds : b.vx = k * shot.ux /\ b.vy = k * shot.uy
SpeedOf(b) ==
  Max(Abs(b.vx), Abs(b.vy)) \div Max(Abs(ShotOf(b).ux), Abs(ShotOf(b).uy))
DistOf(b, ball) ==
  (Abs(ball.x - ShotOf(b).x) + Abs(ball.y - ShotOf(b).y))
    \div (Abs(ShotOf(b).ux) + Abs(ShotOf(b).uy))
CeilDiv(a, b) == (a + b - 1) \div b

\* C11: a bullet flying at any speed straight at a ball that stays in place
\* is reported to hit it within ceil(d / S) ticks; it never gets past the
\* ball, or out of the room, without a hit.
C11_NoTunneling ==
  /\ (Len(bullets) = 0) => Len(bulletHits) > 0
  /\ \A i \in Idx(bullets) :
       LET b == bullets[i]
           ball == balls[1]
       IN bulletHits = << >>
            => /\ tickCount < CeilDiv(DistOf(b, ball), SpeedOf(b))
               /\ (ball.x - b.x) * b.vx + (ball.y - b.y) * b.vy > 0

\* a bullet at full speed hit a ball 148 px away in its second tick
C11_Witness ==
  /\ tickCount = 2 /\ Len(bulletHits) = 1 /\ Len(bullets) = 0
  /\ balls[1].hp < balls[1].maxHp
  /\ bulletHits[1] = [x |-> 360, y |-> 640 - MaxSweepDist * SweepStep]

\* ------------------------------------------------------------------- C1
\* C1: the shared life counter is never negative at the end of a tick, after
\* any sequence of ticks and client messages.
C1_LivesNeverNegative == lives >= 0

\* a ball crossed the bottom while no life was left: the floor acted
C1_Witness == lives = 0 /\ exited > 0 /\ gamePhase = "gameOver"

\* ------------------------------------------------------------------- C2
\* C2 as stated: in every tick lives drops by exactly the number of balls
\* that crossed the bottom boundary during that tick.
C2_ExactDeduction == [][IsTick => lives' = lives - exited']_vars

\* C2 amended: in every tick lives drops by the number of balls that crossed
\* the bottom boundary during that tick, but not below zero.
C2_DeductionWithFloor == [][IsTick => lives' = Max(0, lives - exited')]_vars

\* a tick in which one ball left and one life was taken
C2_Witness == exited = 1 /\ lives = INITIAL_LIVES - 1

\* ------------------------------------------------------------------- C3
\* C3: the phase becomes cardSelection only in a tick, from playing, with the
\* spent weight of the wave at least its budget and no ball alive; the wave
\* counter leaves a playing wave under the same condition only.
C3_EntryOnlyWhenWaveComplete ==
  [][/\ (gamePhase # "cardSelection" /\ gamePhase' = "cardSelection")
          => /\ IsTick
             /\ gamePhase = "playing"
             /\ BudgetSpent(waveWeightSpawned, wave)
             /\ Len(balls) = 0 /\ Len(balls') = 0
             /\ lives > 0 /\ gameStarted
     /\ (gamePhase = "playing" /\ wave' = wave + 1)
          => /\ IsTick
             /\ BudgetSpent(waveWeightSpawned, wave)
             /\ Len(balls) = 0]_vars

\* card selection entered in wave 1 after the whole budget was spawned and cleared
C3_Witness ==
  /\ gamePhase = "cardSelection" /\ wave = 1
  /\ waveWeightSpawned = 40 /\ nextBallId = 21 /\ Len(balls) = 0
  /\ now < cardSelectionEndTime

\* ------------------------------------------------------------------- C4
AllOffered == \A i \in Idx(players') : Offered(players'[i])

\* C4 as stated: with the budget spent and the last ball removed, the next
\* tick ends in cardSelection with every player offered 3 cards, the
\* selection flag cleared and a deadline recorded.
C4_NextTickIsCardSelection ==
  [][(IsTick /\ WaveComplete)
       => /\ gamePhase' = "cardSelection"
          /\ AllOffered
          /\ cardSelectionEndTime' = now' + CARD_SELECTION_MS]_vars

\* C4 amended: once the budget is spent no further ball is spawned in the
\* wave, and the tick after the last ball is removed records a deadline and,
\* if a player is connected, ends in cardSelection with every player offered
\* 3 cards and the selection flag cleared; with no player connected the same
\* tick also ends the selection: the phase is playing again in the next wave.
C4_NextTickEntersCardSelection ==
  [][/\ (IsTick /\ BudgetSpent(waveWeightSpawned, wave) /\ wave' = wave)
          => nextBallId' = nextBallId
     /\ (IsTick /\ WaveComplete)
          => /\ cardSelectionEndTime' = now' + CARD_SELECTION_MS
             /\ IF Len(players) > 0
                THEN /\ gamePhase' = "cardSelection"
                     /\ wave' = wave
                     /\ AllOffered
                ELSE /\ gamePhase' = "playing"
                     /\ wave' = wave + 1
                     /\ waveWeightSpawned' = 0]_vars

\* two players, both freshly offered three cards, deadline ahead
C4_Witness ==
  /\ gamePhase = "cardSelection"
  /\ Len(players) = 2
  /\ \A i \in Idx(players) : Offered(players[i])
  /\ cardSelectionEndTime = now + CARD_SELECTION_MS

\* ------------------------------------------------------------------- C5
\* C5: a tick in cardSelection at which every connected player has selected
\* returns the phase to playing, adds exactly one to the wave counter and
\* resets the spent budget to zero, whatever the clock reads.
C5_AllSelectedEndsSelection ==
  [][(IsTick /\ gamePhase = "cardSelection"
        /\ \A i \in Idx(players) : players[i].cardSelected)
       => /\ gamePhase' = "playing"
          /\ wave' = wave + 1
          /\ waveWeightSpawned' = 0]_vars

\* both players took the +1 bullet card and the wave advanced before the deadline
C5_Witness ==
  /\ gamePhase = "playing" /\ wave = 2 /\ waveWeightSpawned = 0
  /\ now < cardSelectionEndTime
  /\ Len(players) = 2
  /\ \A i \in Idx(players) : players[i].bulletCount = 2

\* ------------------------------------------------------------------- C6
NobodySelected == \A i \in Idx(players) : ~players[i].cardSelected
TimedOut ==
  /\ gamePhase' = "playing" /\ wave' = wave + 1
  /\ \A i \in Idx(players') :
       /\ players'[i].offeredCards = << >>
       /\ Mods(players'[i]) = Mods(players[i])
  /\ lives' = lives - exited'

\* C6 as stated: if no player selects, the phase stays cardSelection on every
\* tick before the deadline and returns to playing on the first tick at or
\* after it.
C6_NoSelectionWaitsForDeadline ==
  [][(IsTick /\ gamePhase = "cardSelection" /\ NobodySelected)
       => IF now' < cardSelectionEndTime
          THEN gamePhase' = "cardSelection"
          ELSE TimedOut]_vars

\* C6 amended: if no player selects and at least one player is connected, the
\* phase stays cardSelection on every tick before the deadline; on the first
\* tick at or after the deadline it returns to playing, the offers are
\* withdrawn and nobody has gained an upgrade.
C6_ConnectedNoSelectionWaitsForDeadline ==
  [][(IsTick /\ gamePhase = "cardSelection" /\ NobodySelected)
       => IF now' < cardSelectionEndTime /\ Len(players) > 0
          THEN /\ gamePhase' = "cardSelection" /\ wave' = wave
               /\ \A i \in Idx(players') : players'[i].offeredCards = players[i].offeredCards
          ELSE TimedOut]_vars

\* the deadline passed with a player connected who took nothing
C6_Witness ==
  /\ gamePhase = "playing" /\ wave = 2
  /\ now >= cardSelectionEndTime
  /\ Len(players) > 0
  /\ \A i \in Idx(players) : Defaults(players[i]) /\ players[i].offeredCards = << >>
  /\ lives = INITIAL_LIVES

\* ------------------------------------------------------------------- C7
\* the request is one the handler must ignore: wrong phase, already selected,
\* or an index that addresses none of the offered cards
SelectRejected(id, cardIndex) ==
  LET p == players[IndexOfId(players, id)]
  IN \/ gamePhase # "cardSelection"
     \/ p.cardSelected
     \/ cardIndex < 0
     \/ cardIndex >= Len(p.offeredCards)

\* C7: a selectCard outside cardSelection, after the player has selected, or
\* with an index that addresses no offered card changes nothing; a selectCard
\* that changes anything sets the player's selection flag, so a player gains
\* at most one upgrade per offering.
C7_RejectedSelectChangesNothing ==
  [][\A id \in PlayerIds : \A cardIndex \in CardIndexes :
       SelectCard(id, cardIndex)
         => /\ SelectRejected(id, cardIndex) => UNCHANGED vars
            /\ ~(UNCHANGED vars)
                 => /\ ~players[IndexOfId(players, id)].cardSelected
                    /\ players'[IndexOfId(players, id)].cardSelected]_vars

\* a player who has selected is still in cardSelection with the cards on offer:
\* a second selectCard meets the already-selected test
C7_Witness ==
  /\ gamePhase = "cardSelection"
  /\ \E i \in Idx(players) :
       /\ players[i].cardSelected
       /\ Len(players[i].offeredCards) = 3
       /\ ~Defaults(players[i])

\* ------------------------------------------------------------------- C8
\* C8: immediately after restartGame the phase is playing, wave 1, lives 10,
\* spent budget 0, no bullets, no balls, and every connected player has the
\* default modifiers, no offered cards and the selection flag cleared.
C8_RestartResets ==
  [][IsRestart
       => /\ gamePhase' = "playing" /\ wave' = 1 /\ lives' = 10
          /\ waveWeightSpawned' = 0
          /\ bullets' = << >> /\ balls' = << >>
          /\ Ids(players') = Ids(players)
          /\ \A i \in Idx(players') :
               /\ Defaults(players'[i])
               /\ players'[i].offeredCards = << >>
               /\ ~players'[i].cardSelected]_vars

\* a reset game (tick 0, nothing on the field) of a process that has been
\* through a card selection before
C8_Witness ==
  /\ tickCount = 0 /\ gameStarted /\ gamePhase = "playing" /\ wave = 1
  /\ lives = INITIAL_LIVES /\ Len(bullets) = 0 /\ Len(balls) = 0
  /\ cardSelectionEndTime > 0
  /\ Len(players) > 0

\* ------------------------------------------------------------------- C9
\* C9: gameOver is entered only by a tick, from playing, with lives 0 at the
\* start of the tick; in gameOver every step other than restartGame leaves
\* the phase, the wave and lives unchanged.
C9_GameOverTerminal ==
  [][/\ (gamePhase # "gameOver" /\ gamePhase' = "gameOver")
          => IsTick /\ gamePhase = "playing" /\ lives = 0
     /\ (gamePhase = "gameOver" /\ ~IsRestart)
          => gamePhase' = "gameOver" /\ wave' = wave /\ lives' = lives]_vars

\* a tick in gameOver in which a ball still left the field, players connected
C9_Witness ==
  /\ gamePhase = "gameOver" /\ lives = 0 /\ exited > 0 /\ Len(players) > 0

\* ------------------------------------------------------------------ C10
\* C10: without a reset, while the wave counter stays the spent budget never
\* decreases and grows only in a tick that spawns one ball, by that ball's
\* wave weight; when the wave counter changes it grows by one and the spent
\* budget is zero; a reset leaves it zero.
C10_SpentBudgetMonotone ==
  [][IF IsRestart THEN waveWeightSpawned' = 0 /\ wave' = 1
     ELSE IF wave' # wave THEN wave' = wave + 1 /\ waveWeightSpawned' = 0
     ELSE \/ waveWeightSpawned' = waveWeightSpawned /\ nextBallId' = nextBallId
          \/ /\ IsTick
             /\ nextBallId' = nextBallId + 1
             /\ \E k \in Idx(balls') :
                  /\ balls'[k].id = nextBallId
                  /\ balls'[k].id \notin Ids(balls)
                  /\ waveWeightSpawned' = waveWeightSpawned
                       + BALL_TYPES(balls'[k].type).waveWeight2]_vars

\* the second wave has begun to spend its own budget
C10_Witness == wave = 2 /\ waveWeightSpawned > 0 /\ Len(balls) > 0

\* ------------------------------------------------------------------ C12
Distinct(seq) == \A i \in Idx(seq) : \A j \in Idx(seq) : i # j => seq[i].id # seq[j].id

\* C12: within each of the player, bullet and ball maps no two entities
\* present at the same time share an id, and every id present was issued by
\* the map's counter (it lies below it).
C12_IdsUnique ==
  /\ Distinct(players) /\ Distinct(bullets) /\ Distinct(balls)
  /\ \A i \in Idx(players) : 1 <= players[i].id /\ players[i].id < nextPlayerId
  /\ \A i \in Idx(bullets) : 1 <= bullets[i].id /\ bullets[i].id < nextBulletId
  /\ \A i \in Idx(balls) : 1 <= balls[i].id /\ balls[i].id < nextBallId

\* a regular and a homing bullet created by the same player in the same tick
C12_Witness ==
  \E i \in Idx(bullets) : \E j \in Idx(bullets) :
    /\ bullets[i].homing /\ ~bullets[j].homing
    /\ bullets[i].id = nextBulletId - 1 /\ bullets[j].id = nextBulletId - 2
    /\ bullets[i].ownerId = bullets[j].ownerId
    /\ bullets[i].x = bullets[j].x /\ bullets[i].y = bullets[j].y

\* ------------------------------------------------------------------ C13
\* the entities of seq2 that are not in seq1 carry ids from lo up to below hi
IssuedFrom(seq1, seq2, lo, hi) ==
  \A i \in Idx(seq2) :
    seq2[i].id \notin Ids(seq1) => lo <= seq2[i].id /\ seq2[i].id < hi

IssuedInOrder ==
  /\ nextPlayerId' >= nextPlayerId
  /\ nextBulletId' >= nextBulletId
  /\ nextBallId' >= nextBallId
  /\ IssuedFrom(players, players', nextPlayerId, nextPlayerId')
  /\ IssuedFrom(bullets, bullets', nextBulletId, nextBulletId')
  /\ IssuedFrom(balls, balls', nextBallId, nextBallId')

\* C13 as stated: over any sequence of ticks and messages, restartGame
\* included, every new player, bullet or ball receives an id greater than
\* every id issued before for its kind (the counters, which lie above every
\* id issued, never go back and every new id is taken from the counter).
C13_IdsMonotone == [][IssuedInOrder]_vars

\* C13 amended: ids are issued in increasing order between two resets;
\* restartGame empties the bullet and ball maps and restarts their ids from
\* 1, so bullet and ball ids of the game before are issued again; player
\* ids are never reset.
C13_IdsMonotoneBetweenResets ==
  [][IF IsRestart
     THEN /\ nextBulletId' = 1 /\ nextBallId' = 1
          /\ bullets' = << >> /\ balls' = << >>
          /\ nextPlayerId' = nextPlayerId /\ Ids(players') = Ids(players)
     ELSE IssuedInOrder]_vars

\* after a reset, a ball carries an id that the game before had issued too
\* (the player has been through a selection, so twenty balls had been issued)
C13_Witness ==
  /\ wave = 1 /\ cardSelectionEndTime > 0 /\ tickCount < 2 * TICK_RATE
  /\ \E i \in Idx(balls) : balls[i].id = 1

\* ------------------------------------------------------------------ C14
\* the fixed increment of each card, in the order of Mods
CardIncrement(card) ==
  CASE card = "critical"      -> <<10, 0, 0, 0, 0, 0, 0, 0>>
    [] card = "piercing"      -> <<0, 10, 0, 0, 0, 0, 0, 0>>
    [] card = "areaDamage"    -> <<0, 0, 1, 0, 0, 0, 0, 0>>
    [] card = "bulletCount"   -> <<0, 0, 0, 1, 0, 0, 0, 0>>
    [] card = "pusher"        -> <<0, 0, 0, 0, 5, 0, 0, 0>>
    [] card = "ignition"      -> <<0, 0, 0, 0, 0, 1, 0, 0>>
    [] card = "melee"         -> <<0, 0, 0, 0, 0, 0, 1, 0>>
    [] card = "bouncyBullets" -> <<0, 0, 0, 0, 0, 0, 0, 1>>
    [] card = "extraLife"     -> <<0, 0, 0, 0, 0, 0, 0, 0>>

\* C14: an accepted selectCard adds the card's fixed increment to exactly one
\* quantity (one modifier of the selecting player, or the shared lives for
\* the extra-life card), whatever its current value, and leaves the player's
\* other modifiers, the other players and the rest of the game unchanged.
C14_AdditiveStacking ==
  [][\A id \in PlayerIds : \A cardIndex \in CardIndexes :
       (SelectCard(id, cardIndex) /\ ~SelectRejected(id, cardIndex))
         => LET i == IndexOfId(players, id)
                card == players[i].offeredCards[cardIndex + 1]
            IN /\ \A k \in 1 .. 8 :
                    Mods(players'[i])[k] = Mods(players[i])[k] + CardIncrement(card)[k]
               /\ lives' = lives + (IF card = "extraLife" THEN 1 ELSE 0)
               /\ Len(players') = Len(players)
               /\ \A j \in Idx(players) : j # i => players'[j] = players[j]
               /\ players'[i].id = id /\ players'[i].keys = players[i].keys
               /\ players'[i].x = players[i].x /\ players'[i].y = players[i].y
               /\ players'[i].offeredCards = players[i].offeredCards
               /\ players'[i].cardSelected
               /\ UNCHANGED <<bullets, balls, nextPlayerId, nextBulletId, nextBallId,
                              tickCount, gameStarted, gamePhase, wave, waveWeightSpawned,
                              lastSpawnTick, cardSelectionEndTime, now>>]_vars

\* a modifier stacked twice: the card taken after wave 1 taken again after wave 2
C14_Witness ==
  /\ gamePhase = "cardSelection" /\ wave = 2
  /\ \E i \in Idx(players) :
       /\ players[i].cardSelected
       /\ \/ players[i].criticalChance = 20
          \/ players[i].pusherChance = 10

\* ------------------------------------------------------------------ C15
\* the entity of the frame's list seqR that carries id
Shown(seqR, id) == seqR[CHOOSE j \in Idx(seqR) : seqR[j].id = id]

\* every entity of listB that listA has too is shown at a + (b - a) * fn / fd
ShownBetween(seqR, listA, listB, fn, fd) ==
  \A k \in Idx(listB) :
    LET b == listB[k]
        ia == IndexOfId(listA, b.id)
    IN ia # 0 =>
         /\ b.id \in Ids(seqR)
         /\ SameFrac(Shown(seqR, b.id).x, Frac(listA[ia].x * fd + (b.x - listA[ia].x) * fn, fd))
         /\ SameFrac(Shown(seqR, b.id).y, Frac(listA[ia].y * fd + (b.y - listA[ia].y) * fn, fd))

\* the frame shows exactly the entities of list, each where list has it
ShownAsIs(seqR, list) ==
  /\ Len(seqR) = Len(list)
  /\ \A k \in Idx(list) :
       /\ seqR[k].id = list[k].id
       /\ SameFrac(seqR[k].x, Whole(list[k].x)) /\ SameFrac(seqR[k].y, Whole(list[k].y))

\* C15 as stated: whenever two neighbouring buffered snapshots with receipt
\* times t0 < t1 bracket the render time r (t0 <= r <= t1), every player and
\* ball present in both is drawn at the linear interpolation of its two
\* positions at fraction (r - t0) / (t1 - t0); with one snapshot buffered
\* its positions are drawn unchanged.
C15_InterpolatedBetweenBracketingPair ==
  rendered # NoState =>
    LET r == perfNow - INTERP_DELAY_MS
    IN /\ \A i \in 1 .. Len(stateBuffer) - 1 :
            LET A == stateBuffer[i]
                B == stateBuffer[i + 1]
            IN (A.time <= r /\ r <= B.time /\ A.time < B.time)
                 => /\ ShownBetween(rendered.players, A.state.players, B.state.players,
                                    r - A.time, B.time - A.time)
                    /\ ShownBetween(rendered.balls, A.state.balls, B.state.balls,
                                    r - A.time, B.time - A.time)
       /\ Len(stateBuffer) = 1
            => /\ ShownAsIs(rendered.players, stateBuffer[1].state.players)
               /\ ShownAsIs(rendered.balls, stateBuffer[1].state.balls)

\* the clamped fraction of r between t0 and t1, the span taken as 1 when the
\* two times are equal
ClampedFraction(t0, t1, r) ==
  LET span == IF t1 = t0 THEN 1 ELSE t1 - t0
  IN Frac(IF r - t0 < 0 THEN 0 ELSE IF r - t0 > span THEN span ELSE r - t0, span)

\* the frame interpolates from snapshot A to snapshot B: it lists the players
\* and balls of B, those A has too at the clamped fraction between their two
\* positions, the others where B has them
InterpolatedFromTo(A, B) ==
  LET f == ClampedFraction(A.time, B.time, perfNow - INTERP_DELAY_MS)
  IN /\ [k \in Idx(rendered.players) |-> rendered.players[k].id]
          = [k \in Idx(B.state.players) |-> B.state.players[k].id]
     /\ [k \in Idx(rendered.balls) |-> rendered.balls[k].id]
          = [k \in Idx(B.state.balls) |-> B.state.balls[k].id]
     /\ ShownBetween(rendered.players, A.state.players, B.state.players, f.n, f.d)
     /\ ShownBetween(rendered.balls, A.state.balls, B.state.balls, f.n, f.d)
     /\ \A k \in Idx(B.state.players) :
          B.state.players[k].id \notin Ids(A.state.players)
            => /\ SameFrac(rendered.players[k].x, Whole(B.state.players[k].x))
               /\ SameFrac(rendered.players[k].y, Whole(B.state.players[k].y))
     /\ \A k \in Idx(B.state.balls) :
          B.state.balls[k].id \notin Ids(A.state.balls)
            => /\ SameFrac(rendered.balls[k].x, Whole(B.state.balls[k].x))
               /\ SameFrac(rendered.balls[k].y, Whole(B.state.balls[k].y))

\* C15 amended: the pair interpolated is the first pair of neighbouring
\* buffered snapshots, in buffer order, whose receipt times bracket r; with
\* equal receipt times the fraction is 0, so of two snapshots received at the
\* same instant r the earlier one's positions are drawn.  When no pair
\* brackets r the oldest and the newest snapshot are interpolated at the
\* fraction clamped to [0,1].  With one snapshot its positions are unchanged.
C15_InterpolatedBetweenFirstBracketingPair ==
  rendered # NoState =>
    LET r == perfNow - INTERP_DELAY_MS
        n == Len(stateBuffer)
        Bracketing == {i \in 1 .. n - 1 :
                         stateBuffer[i].time <= r /\ r <= stateBuffer[i + 1].time}
    IN /\ \A i \in Bracketing :
            (\A j \in Bracketing : i <= j)
              => InterpolatedFromTo(stateBuffer[i], stateBuffer[i + 1])
       /\ (n > 1 /\ Bracketing = {})
            => InterpolatedFromTo(stateBuffer[1], stateBuffer[n])
       /\ n = 1
            => /\ ShownAsIs(rendered.players, stateBuffer[1].state.players)
               /\ ShownAsIs(rendered.balls, stateBuffer[1].state.balls)

\* a frame drawn strictly between two snapshots: a player present in both is
\* drawn between its two positions
C15_Witness ==
  /\ rendered # NoState
  /\ \E i \in 1 .. Len(stateBuffer) - 1 :
       /\ stateBuffer[i].time < perfNow - INTERP_DELAY_MS
       /\ perfNow - INTERP_DELAY_MS < stateBuffer[i + 1].time
       /\ \E k \in Idx(rendered.players) :
            LET id == rendered.players[k].id
                ia == IndexOfId(stateBuffer[i].state.players, id)
                ib == IndexOfId(stateBuffer[i + 1].state.players, id)
            IN /\ ia # 0 /\ ib # 0
               /\ stateBuffer[i].state.players[ia].x * rendered.players[k].x.d
                    < rendered.players[k].x.n
               /\ rendered.players[k].x.n
                    < stateBuffer[i + 1].state.players[ib].x * rendered.players[k].x.d

\* ------------------------------------------------------------------ C16
\* C16: the bullets of a frame are those of the newest buffered snapshot, in
\* its order; a homing bullet is drawn at its reported position; any other
\* bullet is drawn at its reported position plus its velocity per tick (the
\* reported (vx, vy), or straight up at BULLET_SPEED when none is reported)
\* times the ticks elapsed since that snapshot was received.
C16_BulletsExtrapolatedFromNewest ==
  rendered # NoState =>
    LET latest == stateBuffer[Len(stateBuffer)]
        elapsed == perfNow - latest.time
        list == latest.state.bullets
    IN /\ Len(rendered.bullets) = Len(list)
       /\ \A k \in Idx(list) :
            LET b == list[k]
                shown == rendered.bullets[k]
                vx == IF b.hasVel THEN b.vx ELSE 0
                vy == IF b.hasVel THEN b.vy ELSE 0 - BULLET_SPEED
            IN /\ shown.id = b.id
               /\ b.homing => shown.x = Whole(b.x) /\ shown.y = Whole(b.y)
               /\ ~b.homing =>
                    /\ SameFrac(shown.x, Frac(b.x * 1000 + vx * TICK_RATE * elapsed, 1000))
                    /\ SameFrac(shown.y, Frac(b.y * 1000 + vy * TICK_RATE * elapsed, 1000))

\* a frame drawn some time after the newest snapshot, while the render time
\* still lies between two older snapshots: a homing bullet, a bullet with
\* velocity flying up, one flying down and a bullet without velocity are on it
C16_Witness ==
  /\ rendered # NoState
  /\ Len(stateBuffer) >= 3
  /\ perfNow > stateBuffer[Len(stateBuffer)].time
  /\ perfNow - INTERP_DELAY_MS < stateBuffer[Len(stateBuffer) - 1].time
  /\ \E k \in Idx(rendered.bullets) : rendered.bullets[k].homing
  /\ \E k \in Idx(rendered.bullets) : \E b \in {stateBuffer[Len(stateBuffer)].state.bullets[k]} :
       ~b.homing /\ b.hasVel /\ b.vy < 0 /\ rendered.bullets[k].y.n < b.y * rendered.bullets[k].y.d
  /\ \E k \in Idx(rendered.bullets) : \E b \in {stateBuffer[Len(stateBuffer)].state.bullets[k]} :
       ~b.homing /\ b.hasVel /\ b.vy > 0 /\ rendered.bullets[k].y.n > b.y * rendered.bullets[k].y.d
  /\ \E k \in Idx(rendered.bullets) : \E b \in {stateBuffer[Len(stateBuffer)].state.bullets[k]} :
       ~b.homing /\ ~b.hasVel /\ rendered.bullets[k].y.n < b.y * rendered.bullets[k].y.d

\* ------------------------------------------------------------------ C17
\* the x positions at which player p's bullets are created
SpawnXs(p) == {p.x} \cup {p.x + (2 * i - (p.bulletCount - 1)) * 8 : i \in 0 .. p.bulletCount - 1}

\* C17: a tick runs phase checks, input, collisions, bullet movement, bullet
\* spawning, burn damage and ball movement in this order, and the state it
\* leaves (the snapshot) shows it:
\*  - players have moved by their keys unless the phase checks of this tick
\*    left the game over;
\*  - a bullet created in the tick sits at its owner's position after input,
\*    unmoved;
\*  - a bullet that was there before has moved exactly once, a homing one
\*    toward its target's position before the balls moved;
\*  - a ball that was there before has moved down once (less the knock-backs
\*    of the tick); a ball spawned in the tick has moved once too;
\*  - every hit was recorded at a ball's position before the balls moved;
\*  - a ball set alight in the tick has taken its first burn damage in it.
C17_StageOrder ==
  [][IsTick =>
      /\ Len(players') = Len(players)
      /\ \A i \in Idx(players) :
           /\ players'[i].x = IF gamePhase' # "gameOver" THEN MovePlayer(players[i]).x
                                                         ELSE players[i].x
           /\ players'[i].y = IF gamePhase' # "gameOver" THEN MovePlayer(players[i]).y
                                                         ELSE players[i].y
      /\ \A j \in Idx(bullets') :
           LET b == bullets'[j]
               i == IndexOfId(bullets, b.id)
               o == IndexOfId(players', b.ownerId)
           IN IF b.id >= nextBulletId
              THEN /\ i = 0 /\ o # 0 /\ b.id < nextBulletId'
                   /\ b.y = players'[o].y /\ b.x \in SpawnXs(players'[o])
                   /\ gamePhase' = "playing"
              ELSE /\ i # 0
                   /\ (~b.homing /\ bullets[i].bouncesLeft = 0)
                        => /\ b.x = bullets[i].x + bullets[i].vx
                           /\ b.y = bullets[i].y + bullets[i].vy
                   /\ b.homing
                        => LET t == IndexOfId(balls, b.targetBallId)
                           IN /\ t # 0
                              /\ b.x = bullets[i].x + HomingMove(bullets[i], balls[t]).x
                              /\ b.y = bullets[i].y + HomingMove(bullets[i], balls[t]).y
      /\ \A j \in Idx(balls') :
           LET b == balls'[j]
               i == IndexOfId(balls, b.id)
           IN IF i = 0
              THEN /\ b.id >= nextBallId /\ b.id < nextBallId'
                   /\ \E n \in 0 .. Len(bullets) : b.y = 0 - b.radius - 10 + b.speed - n * PUSHER_STRENGTH
              ELSE /\ b.x = balls[i].x
                   /\ \E n \in 0 .. Len(bullets) : b.y = balls[i].y + b.speed - n * PUSHER_STRENGTH
                   /\ b.burnEndTick = tickCount' + BURN_DURATION_TICKS
                        => b.hp <= balls[i].hp - (BULLET_DAMAGE + 1) * HpScale
      /\ \A k \in Idx(bulletHits') :
           \/ \E i \in Idx(balls) : \E n \in 0 .. Len(bullets) :
                /\ bulletHits'[k].x = balls[i].x
                /\ bulletHits'[k].y = balls[i].y - n * PUSHER_STRENGTH
           \/ \E type \in {BALL_TYPE_KEYS[i] : i \in Idx(BALL_TYPE_KEYS)} :
                \E n \in 0 .. Len(bullets) :
                  /\ tickCount' - 1 >= lastSpawnTick /\ lastSpawnTick' = tickCount'
                  /\ bulletHits'[k].y = 0 - BallRadius(type) - 10 - n * PUSHER_STRENGTH]_vars

\* after a tick: a bullet of this tick at its owner's position, a bullet of
\* the tick before one move further, and a hit recorded in this tick
C17_Witness ==
  /\ gamePhase = "playing" /\ Len(bulletHits) > 0
  /\ \E j \in Idx(bullets) : \E k \in Idx(bullets) :
       LET o == IndexOfId(players, bullets[j].ownerId)
       IN /\ o # 0 /\ ~bullets[j].homing /\ ~bullets[k].homing
          /\ bullets[j].id = nextBulletId - 1 /\ bullets[k].id < bullets[j].id
          /\ bullets[j].x = players[o].x /\ bullets[j].y = players[o].y
          /\ bullets[k].y = players[o].y - BULLET_SPEED

\* ------------------------------------------------------------------ C18
\* the state at the start of the collision pass of the tick that reads in,
\* and at its end
BeforePass(in) ==
  ProcessInput(EndCardSelection(EnterCardSelection(TickSpawn(World, in.draw),
                                                   in.offer, in.t), in.t))
AfterPass(in) == CollisionPass(BeforePass(in), in.roll)

SamePlaces(seq1, seq2) ==
  /\ Len(seq1) = Len(seq2)
  /\ \A i \in Idx(seq1) :
       seq1[i].id = seq2[i].id /\ seq1[i].x = seq2[i].x /\ seq1[i].y = seq2[i].y

\* C18 as stated: the collision pass of a tick changes no bullet position and
\* no ball position and leaves both collections as they were (removals are
\* only recorded), so every test of the pass sees the positions from before it.
C18_PassChangesNoPosition ==
  \A in \in TickInputs :
    /\ SamePlaces(BeforePass(in).bullets, AfterPass(in).bullets)
    /\ SamePlaces(BeforePass(in).balls, AfterPass(in).balls)

\* C18 amended: the pass changes no bullet position, no ball's x, and no
\* collection; a ball's y changes only by knock-back: each hit whose pusher
\* roll passes moves the hit ball up by PUSHER_STRENGTH at once, inside the
\* pass, so a ball ends the pass a whole number of knock-backs above where it
\* began, and only if it lost hp to a bullet of a player with a pusher chance.
C18_PassChangesOnlyPushedBalls ==
  \A in \in TickInputs :
    LET pre == BeforePass(in)
        post == AfterPass(in)
    IN /\ SamePlaces(pre.bullets, post.bullets)
       /\ Len(post.balls) = Len(pre.balls)
       /\ post.toRemoveBullets \subseteq Ids(pre.bullets)
       /\ post.toRemoveBalls \subseteq Ids(pre.balls)
       /\ \A j \in Idx(pre.balls) :
            /\ post.balls[j].id = pre.balls[j].id
            /\ post.balls[j].x = pre.balls[j].x
            /\ \E n \in 0 .. Len(pre.bullets) :
                 post.balls[j].y = pre.balls[j].y - n * PUSHER_STRENGTH
            /\ post.balls[j].y # pre.balls[j].y
                 => /\ post.balls[j].hp < pre.balls[j].hp
                    /\ in.roll.push < 99
                    /\ \E i \in Idx(pre.players) : pre.players[i].pusherChance > 0

\* a state whose next collision pass knocks a ball back, reached after an
\* earlier knock-back: the ball is off the lattice of its fall
C18_Witness ==
  /\ \E in \in TickInputs : \E j \in Idx(balls) :
       j <= Len(AfterPass(in).balls) /\ AfterPass(in).balls[j].y = balls[j].y - PUSHER_STRENGTH
  /\ \E j \in Idx(balls) : (balls[j].y + balls[j].radius + 10) % balls[j].speed # 0

\* ------------------------------------------------------------------ C19
\* the state of the pass when the first n bullets have been processed
RECURSIVE CollideUpTo(_, _, _)
CollideUpTo(w, n, roll) ==
  IF n = 0 THEN w ELSE CollideBullet(CollideUpTo(w, n - 1, roll), n, roll)

\* bullet i of the pass is removed by the tick, having damaged no ball and
\* recorded no hit
RemovedHarmlessly(in, i) ==
  LET before == CollideUpTo(BeforePass(in), i - 1, in.roll)
      after == CollideBullet(before, i, in.roll)
      b == before.bullets[i]
  IN /\ b.id \in after.toRemoveBullets
     /\ after.balls = before.balls
     /\ after.bulletHits = before.bulletHits
     /\ after.areaDamageHits = before.areaDamageHits
     /\ b.id \notin Ids(gameTick(World, in).bullets)

\* the target of bullet i when the pass comes to it: its index in the ball
\* map (0 when it is not there)
TargetAt(in, i) ==
  LET before == CollideUpTo(BeforePass(in), i - 1, in.roll)
  IN IndexOfId(before.balls, before.bullets[i].targetBallId)

TargetDeadAt(in, i) ==
  LET before == CollideUpTo(BeforePass(in), i - 1, in.roll)
  IN TargetAt(in, i) # 0 /\ before.balls[TargetAt(in, i)].hp <= 0

AfterDamage(in) == BurnDamage(SpawnBullets(MoveBullets(AfterPass(in))))

TestedMove(w, i) ==
  LET b == w.bullets[i]
      t == IndexOfId(w.balls, b.targetBallId)
  IN IF b.homing THEN HomingMove(b, w.balls[t]) ELSE [x |-> b.vx, y |-> b.vy]

\* the balls of w that bullet i of w hits, in map order
BallsHitBy(w, i) ==
  IF w.bullets[i].homing /\ IndexOfId(w.balls, w.bullets[i].targetBallId) = 0
  THEN << >>
  ELSE SelectSeq(w.balls, LAMBDA ball :
         bulletHitsBall(w.bullets[i], ball, TestedMove(w, i).x, TestedMove(w, i).y))

\* the owner of bullet i splashes
Splashes(w, i) ==
  LET o == IndexOfId(w.players, w.bullets[i].ownerId)
  IN ~w.bullets[i].homing /\ o # 0 /\ w.players[o].areaDamageLevel > 0

\* the owner of bullet i knocks back under roll
Pushes(w, i, roll) ==
  LET o == IndexOfId(w.players, w.bullets[i].ownerId)
  IN ~w.bullets[i].homing /\ o # 0 /\ roll.push < w.players[o].pusherChance

\* the hit points of the pass from bullet i on: one per (bullet, ball) hit,
\* at the ball's position when it is hit
RECURSIVE DirectHits(_, _, _)
DirectHits(w, i, roll) ==
  IF i > Len(w.bullets) THEN << >>
  ELSE [k \in Idx(BallsHitBy(w, i)) |->
          [x |-> BallsHitBy(w, i)[k].x, y |-> BallsHitBy(w, i)[k].y]]
       \o DirectHits(CollideBullet(w, i, roll), i + 1, roll)

\* the splash points of the pass from bullet i on: one per hit of a bullet
\* whose owner has an area-damage level
RECURSIVE SplashHits(_, _, _)
SplashHits(w, i, roll) ==
  IF i > Len(w.bullets) THEN << >>
  ELSE (IF Splashes(w, i)
        THEN [k \in Idx(BallsHitBy(w, i)) |->
                [x |-> BallsHitBy(w, i)[k].x,
                 y |-> BallsHitBy(w, i)[k].y
                         - (IF Pushes(w, i, roll) THEN PUSHER_STRENGTH ELSE 0)]]
        ELSE << >>)
       \o SplashHits(CollideBullet(w, i, roll), i + 1, roll)

\* C21: the two event lists a tick leaves for its snapshot hold exactly the
\* hits of that tick's collision pass: one direct-hit point per (bullet,
\* ball) hit, one splash point per hit of a splashing bullet, nothing of the
\* lists of the tick before; a tick without a hit leaves both lists empty.
C21_EventListsOfThisTickOnly ==
  [][IsTick =>
      \E in \in TickInputs :
        /\ balls' = gameTick(World, in).balls
        /\ bullets' = gameTick(World, in).bullets
        /\ bulletHits' = DirectHits(BeforePass(in), 1, in.roll)
        /\ areaDamageHits' = SplashHits(BeforePass(in), 1, in.roll)
        /\ (\A i \in Idx(BeforePass(in).bullets) : BallsHitBy(BeforePass(in), i) = << >>)
             => bulletHits' = << >> /\ areaDamageHits' = << >>]_vars

\* a snapshot with two direct hits and a splash point
C21_Witness ==
  /\ Len(bulletHits) >= 2
  /\ Len(areaDamageHits) >= 1

\* ------------------------------------------------------------------ C22
\* the receipt time of the newest buffered snapshot: performance.now() when
\* the 'state' handler last ran

\* the buffer holds something once a snapshot has arrived, is ordered by
\* non-decreasing receipt time and ends with the snapshot received last
BufferInOrder ==
  /\ tickCount > 0 => Len(stateBuffer) > 0
  /\ \A i \in 1 .. Len(stateBuffer) - 1 : stateBuffer[i].time <= stateBuffer[i + 1].time
  /\ Len(stateBuffer) > 0
       => /\ stateBuffer[Len(stateBuffer)].state = Scene(tickCount)
          /\ stateBuffer[Len(stateBuffer)].time <= perfNow

\* C22 as stated: after a snapshot is processed the buffer is non-empty,
\* ordered, ends with the snapshot just received, and holds no entry older
\* than MAX_BUFFER_MS before that receipt unless the entry is the only one.
C22_NoEntryOlderThanWindow ==
  /\ BufferInOrder
  /\ \A i \in Idx(stateBuffer) :
       stateBuffer[i].time < stateBuffer[Len(stateBuffer)].time - MAX_BUFFER_MS => Len(stateBuffer) = 1

\* C22 amended: the buffer is non-empty, ordered and ends with the snapshot
\* just received; every entry but the oldest lies within MAX_BUFFER_MS of
\* that receipt; the oldest entry may be older, also when it is not the only
\* one.
C22_OnlyOldestMayBeOlderThanWindow ==
  /\ BufferInOrder
  /\ \A i \in 2 .. Len(stateBuffer) :
       stateBuffer[i].time >= stateBuffer[Len(stateBuffer)].time - MAX_BUFFER_MS

\* a buffer from which a snapshot was dropped and whose oldest entry is
\* still older than the window
C22_Witness ==
  /\ Len(stateBuffer) >= 2
  /\ tickCount > Len(stateBuffer)
  /\ stateBuffer[1].time < stateBuffer[Len(stateBuffer)].time - MAX_BUFFER_MS

\* ------------------------------------------------------------------ C23
\* the tick's world after every player has sent key state k
WithKeys(k) == [World EXCEPT !.players = MapSeq(LAMBDA p : [p EXCEPT !.keys = k], @)]

\* the tick that reads in, run on w up to the end of its input stage
InputStage(w, in) ==
  ProcessInput(EndCardSelection(EnterCardSelection(TickSpawn(w, in.draw),
                                                   in.offer, in.t), in.t))

\* one step of PLAYER_SPEED down and up a coordinate, each kept in lo .. hi
StepDown(z, pressed, lo) == IF pressed THEN (IF z - PLAYER_SPEED < lo THEN lo ELSE z - PLAYER_SPEED) ELSE z
StepUp(z, pressed, hi) == IF pressed THEN (IF z + PLAYER_SPEED > hi THEN hi ELSE z + PLAYER_SPEED) ELSE z

\* C23: every player is inside the play area (radius <= x <= width - radius,
\* radius <= y <= height - radius); a tick in which the phase is gameOver
\* when input is integrated leaves every position as it is, whatever keys
\* are held; in any other phase each pressed direction moves the player by
\* PLAYER_SPEED, kept inside the play area.
C23_InputFrozenInGameOver ==
  /\ \A i \in Idx(players) :
       /\ PLAYER_RADIUS <= players[i].x /\ players[i].x <= ROOM_WIDTH - PLAYER_RADIUS
       /\ PLAYER_RADIUS <= players[i].y /\ players[i].y <= ROOM_HEIGHT - PLAYER_RADIUS
  /\ \A k \in [left : BOOLEAN, right : BOOLEAN, up : BOOLEAN, down : BOOLEAN] :
     \A in \in TickInputs :
       LET w == InputStage(WithKeys(k), in)
       IN /\ Len(w.players) = Len(players)
          /\ \A i \in Idx(players) :
               IF w.gamePhase = "gameOver"
               THEN w.players[i].x = players[i].x /\ w.players[i].y = players[i].y
               ELSE /\ w.players[i].x
                         = StepUp(StepDown(players[i].x, k.left, PLAYER_RADIUS),
                                  k.right, ROOM_WIDTH - PLAYER_RADIUS)
                    /\ w.players[i].y
                         = StepUp(StepDown(players[i].y, k.up, PLAYER_RADIUS),
                                  k.down, ROOM_HEIGHT - PLAYER_RADIUS)

\* the game is over and a player away from the left edge holds the left key:
\* the ticks that follow leave the player there
C23_Witness ==
  /\ gamePhase = "gameOver" /\ lives = 0
  /\ \E i \in Idx(players) :
       players[i].keys.left /\ players[i].x > PLAYER_RADIUS

\* ------------------------------------------------------------------ C24
\* C24: whenever the phase is cardSelection there is no ball and lives > 0;
\* a step taken in cardSelection spawns no ball and takes no life (unless it
\* is a restart, which resets both), and the phase becomes gameOver only in
\* a tick that starts in playing, never from cardSelection.
C24_SelectionHasNoBallsAndCannotEndTheGame ==
  /\ [](gamePhase = "cardSelection" => Len(balls) = 0 /\ lives > 0)
  /\ [][/\ (gamePhase = "cardSelection" /\ ~IsRestart)
             => /\ Len(balls') = 0 /\ nextBallId' = nextBallId
                /\ lives' >= lives
                /\ gamePhase' # "gameOver"
        /\ (gamePhase' = "gameOver" /\ gamePhase # "gameOver")
             => gamePhase = "playing" /\ lives = 0 /\ IsTick]_vars

\* card selection after a wave whose balls were all spawned and removed, with
\* one player's card already applied and another player still choosing
C24_Witness ==
  /\ gamePhase = "cardSelection" /\ nextBallId > 1 /\ Len(balls) = 0
  /\ \E i \in Idx(players) : players[i].cardSelected
  /\ \E i \in Idx(players) : players[i].offeredCards # << >> /\ ~players[i].cardSelected

\* ------------------------------------------------------------------ C25
\* C25: a ball removed in a tick is accounted to one cause: a ball whose hp
\* is brought to 0 or below by bullet, splash or burn damage in a tick takes
\* no life in that tick; the lives lost in a tick are the balls that leave
\* the room alive.  (killed: the balls the damage stages have put in
\* toRemoveBalls; exits: the balls the movement stage sees below the room.)
C25_KilledBallTakesNoLife ==
  [][IsTick =>
       \A in \in TickInputs :
         (balls' = gameTick(World, in).balls /\ lives' = gameTick(World, in).lives)
           => \E d \in {AfterDamage(in)} :
                LET killed == {j \in Idx(d.balls) : d.balls[j].id \in d.toRemoveBalls}
                    exits == {j \in Idx(d.balls) : OffBottom(MoveBall(d.balls[j]))}
                IN /\ lives' = ClampLives(lives - Cardinality(exits \ killed))
                   /\ exited' = Cardinality(exits \ killed)]_vars

====
